---------------------------- MODULE Spec2Model ----------------------------
(***************************************************************************)
(* A model of the contract analyser (legalHelp): the sliding-window        *)
(* chunker, the rule-based risk scanner, the global contract checker, the  *)
(* risk meter of summarize_contract, and the AI response reconciler        *)
(* parse_ai_json_response.                                                 *)
(*                                                                         *)
(* A text is a sequence of atoms.  An atom is either one whitespace        *)
(* character (" " or "\n") or a maximal run of non-whitespace characters   *)
(* (a word); positions and lengths count atoms.                            *)
(***************************************************************************)
EXTENDS Integers, Sequences, FiniteSets, TLC

VARIABLES
    \* ---- sliding_window_chunks (new_main.py:109, main.py:18)
    impl,        \* which of the two definitions runs: "new_main" or "main"
    text,        \* parameter text
    max_chars,   \* parameter max_chars
    overlap,     \* parameter overlap
    start,       \* local start
    chunks,      \* local chunks, as the <<start, end>> range of each appended chunk
    windows,     \* history: the <<start, end>> of every window examined so far
    pc,          \* "loop" (at the while), "body", "done" (returned), "cut" (left the bounds)
    \* ---- detect_clause_risk_and_loopholes, detect_global_risks (new_main.py:128-187)
    doc,            \* the text under scan
    clause_result,  \* <<what detect_clause_risk_and_loopholes(doc) returned>>, or NotRun
    global_result,  \* <<what detect_global_risks(doc) returned>>, or NotRun
    \* ---- summarize_contract (new_main.py:249-515)
    full_text,            \* the text extracted from the PDF
    run_no,               \* 1 or 2: two runs on the same document, one after the other
    sum_pc,               \* position in summarize_contract
    global_flags,         \* local global_flags
    full_doc_summary,     \* local full_doc_summary
    clauses,              \* local chunks / clauses
    clause_risk_levels,   \* local clause_risk_levels
    clause_risk_flags,    \* local clause_risk_flags, clause number -> flags
    clause_loophole_map,  \* local clause_loophole_map, clause number -> loopholes
    clause_ai_summaries,  \* local clause_ai_summaries
    final_summary,        \* local final_summary
    risk_meter,           \* <<local risk_meter>>, or NotRun
    first_run,            \* <<the rule-based values the first run returned>>, or NotRun
    \* ---- parse_ai_json_response (comprehensive_analysis.py:537-667)
    ai_response,   \* parameter ai_response, a sequence of tokens
    json_text,     \* local json_text, a sequence of tokens
    parse_pc,      \* "extract", "clean", "load", "loaded" or "raised"
    parse_error,   \* the exception raised, or NotRun
    ai_data,       \* <<local ai_data>>, or NotRun
    \* ---- the expiration date of parse_ai_json_response (comprehensive_analysis.py:612-631)
    contract_basics,   \* ai_data["contract_basics"]: its expiration_date, effective_date, contract_term_years
    now,               \* the day datetime.now() falls on
    expiration_date,   \* local expiration_date
    expirationDate,    \* <<contractInfo["expirationDate"]>>, or NotRun
    exp_pc,            \* "calculate", "emit" or "done"
    \* ---- convert_ai_parties (comprehensive_analysis.py:719-804)
    ai_parties,    \* parameter ai_parties
    parties,       \* <<the list convert_ai_parties returned>>, or NotRun
    party_error,   \* <<the exception raised>>, or NotRun
    party_pc,      \* "call", "returned" or "raised"
    \* ---- convert_ai_risks (comprehensive_analysis.py:935-1009)
    ai_risks,      \* parameter ai_risks
    risks,         \* <<the list convert_ai_risks returned>>, or NotRun
    risk_error,    \* <<the exception raised>>, or NotRun
    risk_pc,       \* "call", "returned" or "raised"
    \* ---- convert_ai_products (comprehensive_analysis.py:1032-1157)
    ai_products,   \* parameter ai_products
    products,   \* <<the list convert_ai_products returned>>, or NotRun
    product_error,   \* <<the exception raised>>, or NotRun
    product_pc,  \* "call", "returned" or "raised"
    \* ---- extract_comprehensive_data and the main block (comprehensive_analysis.py)
    ai_payload,   \* the categories of ai_data that the converters read
    contract_data,   \* the dict parse_ai_json_response returned
    quality,   \* quality_score and quality_issues
    validation_errors,   \* the list built by validate_contract_data_strict
    printed,   \* the issues and errors printed to the console
    raised,   \* the ValueError that left extract_comprehensive_data
    written,   \* the file the main block wrote
    gate_pc,  \* where the call stands
    \* ---- extract_clause_risk_map_enhanced (comprehensive_analysis.py:2317-2372)
    map_input,   \* what ai_response, full_text and total_pages hold for the mapper
    base_mapping,   \* the list base_mapping
    map_pc,  \* "base", "sections", "enhance" or "done"
    \* ---- parse_ai_json_response called twice on the same arguments (comprehensive_analysis.py:537-667)
    rerun_input,   \* what the payload holds for the fields that read the clock
    clock,   \* the day datetime.now() falls on
    first_data,   \* <<the ContractData of the first call>>, or NotRun
    second_data,   \* <<the ContractData of the second call>>, or NotRun
    rerun_pc,  \* "first", "between", "second" or "done"
    \* ---- the main block run on one document after another (comprehensive_analysis.py:2629-2708)
    files,   \* file name -> what the working directory holds under it
    files_before,   \* files as they were when the run started
    wrote,   \* the names of the files the run has opened for writing
    run,   \* the number of the run
    main_pc,   \* where the run stands
    exit_status,  \* the exit status of the run
    \* ---- safe_gemini_generate inside extract_comprehensive_data (comprehensive_analysis.py:60-98, 291-331)
    model,   \* the global model: "configured", or "None" without an API key
    ai_result,   \* <<what safe_gemini_generate did>>, or NotRun
    ai_pc,  \* "call", "parse", "returned" or "raised"
    \* ---- extract_numeric_value (comprehensive_analysis.py:669-698)
    amount_text,   \* parameter text, a sequence of characters
    numeric_value,   \* <<what extract_numeric_value returned>>, or NotRun
    numeric_pc,  \* "call" or "returned"
    \* ---- the analytics of parse_ai_json_response (comprehensive_analysis.py:643-647, 2374-2477)
    analytics_input,   \* ai_response as tokens, and the risk_factors its payload carries
    analytics_data,   \* <<the risks and the analytics of the ContractData>>, or NotRun
    analytics_pc,  \* "parse", "parsed", "returned" or "raised"
    \* ---- the parties and relationships of the ContractData (comprehensive_analysis.py:635-641)
    relationships,   \* <<the list extract_relationships returned>>, or NotRun
    rel_pc,  \* "idle", "parties", "relationships", "built" or "raised"
    \* ---- create_highlighted_pdf (pdf_highlighter.py:199-291)
    hl_input,   \* <<the PDF, the ContractData and what fitz.open and doc.save do>>, or NotRun
    annots,   \* the annotations added to the pages of doc, in order
    applied,   \* the highlight definitions handed to highlight_text_areas, in order
    highlights_added,   \* the counter of create_highlighted_pdf
    hl_result,   \* <<the dict returned>>, or NotRun
    hl_pc   \* "idle", "open", "clauses", "risks", "parties", "save" or "done"

chunkVars == <<impl, text, max_chars, overlap, start, chunks, windows, pc>>

scanVars == <<doc, clause_result, global_result>>

sumLocals == <<global_flags, full_doc_summary, clauses, clause_risk_levels,
               clause_risk_flags, clause_loophole_map, clause_ai_summaries,
               final_summary, risk_meter>>

sumVars == <<full_text, run_no, sum_pc, sumLocals, first_run>>

parseVars == <<ai_response, json_text, parse_pc, parse_error, ai_data>>

expVars == <<contract_basics, now, expiration_date, expirationDate, exp_pc>>

\* the variables of the reconciler's converters and of the quality gate
partyVars == <<ai_parties, parties, party_error, party_pc>>

riskVars == <<ai_risks, risks, risk_error, risk_pc>>

productVars == <<ai_products, products, product_error, product_pc>>

gateVars == <<ai_payload, contract_data, quality, validation_errors, printed, raised, written, gate_pc>>

mapVars == <<map_input, base_mapping, map_pc>>

rerunVars == <<rerun_input, clock, first_data, second_data, rerun_pc>>

mainVars == <<files, files_before, wrote, run, main_pc, exit_status>>

aiVars == <<model, ai_result, ai_pc>>

numericVars == <<amount_text, numeric_value, numeric_pc>>

analyticsVars == <<analytics_input, analytics_data, analytics_pc>>

relVars == <<relationships, rel_pc>>

hlVars == <<hl_input, annots, applied, highlights_added, hl_result, hl_pc>>

reconVars == <<expVars, partyVars, riskVars, productVars, gateVars, mapVars, rerunVars, mainVars, aiVars, numericVars, analyticsVars, relVars, hlVars>>

vars == <<chunkVars, scanVars, sumVars, parseVars, reconVars>>

\* what the steps of one part of the reconciler leave alone
coreVars == <<chunkVars, scanVars, sumVars, parseVars>>
expFrame == <<coreVars, partyVars, riskVars, productVars, gateVars, mapVars, rerunVars, mainVars, aiVars, numericVars, analyticsVars, relVars, hlVars>>
partyFrame == <<coreVars, expVars, riskVars, productVars, gateVars, mapVars, rerunVars, mainVars, aiVars, numericVars, analyticsVars, relVars, hlVars>>
riskFrame == <<coreVars, expVars, partyVars, productVars, gateVars, mapVars, rerunVars, mainVars, aiVars, numericVars, analyticsVars, relVars, hlVars>>
productFrame == <<coreVars, expVars, partyVars, riskVars, gateVars, mapVars, rerunVars, mainVars, aiVars, numericVars, analyticsVars, relVars, hlVars>>
gateFrame == <<coreVars, expVars, partyVars, riskVars, productVars, mapVars, rerunVars, mainVars, aiVars, numericVars, analyticsVars, relVars, hlVars>>
mapFrame == <<coreVars, expVars, partyVars, riskVars, productVars, gateVars, rerunVars, mainVars, aiVars, numericVars, analyticsVars, relVars, hlVars>>
rerunFrame == <<coreVars, expVars, partyVars, riskVars, productVars, gateVars, mapVars, mainVars, aiVars, numericVars, analyticsVars, relVars, hlVars>>
mainFrame == <<coreVars, expVars, partyVars, riskVars, productVars, gateVars, mapVars, rerunVars, aiVars, numericVars, analyticsVars, relVars, hlVars>>
aiFrame == <<coreVars, expVars, partyVars, riskVars, productVars, gateVars, mapVars, rerunVars, mainVars, numericVars, analyticsVars, relVars, hlVars>>
numericFrame == <<coreVars, expVars, partyVars, riskVars, productVars, gateVars, mapVars, rerunVars, mainVars, aiVars, analyticsVars, relVars, hlVars>>
analyticsFrame == <<coreVars, expVars, partyVars, riskVars, productVars, gateVars, mapVars, rerunVars, mainVars, aiVars, numericVars, relVars, hlVars>>
relFrame == <<coreVars, expVars, partyVars, riskVars, productVars, gateVars, mapVars, rerunVars, mainVars, aiVars, numericVars, analyticsVars, hlVars>>
hlFrame == <<coreVars, expVars, partyVars, riskVars, productVars, gateVars, mapVars, rerunVars, mainVars, aiVars, numericVars, analyticsVars, relVars>>

-----------------------------------------------------------------------------
(* Bounds of the model *)

MaxLen == 4          \* longest text handed to the chunker
MaxChars == 3        \* largest max_chars
MaxOverlap == 3      \* largest overlap
MaxIter == MaxLen + 2   \* windows a run may examine before it leaves the model
MaxFrags == 3        \* phrases in a scanned text
MaxDocFrags == 1     \* phrases in a document handed to summarize_contract
MaxClauses == 3      \* clause risk levels handed to the risk meter
MaxFlags == 3        \* global flags handed to the risk meter
MaxProse == 1        \* pieces of prose before, and after, the payload of an AI output
MaxDay == 2          \* latest day a date of a payload, or today, falls on
MaxYears == 2        \* longest contract term of a payload, in years
MaxParties == 3      \* candidates handed to convert_ai_parties
MaxRisks == 3        \* items handed to convert_ai_risks
MaxProducts == 2     \* items handed to convert_ai_products

-----------------------------------------------------------------------------
(* Helpers *)

Min(a, b) == IF a <= b THEN a ELSE b
Max(a, b) == IF a >= b THEN a ELSE b

RECURSIVE SumSeq(_)
SumSeq(s) == IF s = <<>> THEN 0 ELSE Head(s) + SumSeq(Tail(s))

SeqsUpTo(S, n) == UNION {[1..k -> S] : k \in 0..n}

\* str.isspace() of one atom
IsSpace(c) == c \in {" ", "\n"}

\* Python's s[a:b] for integers a, b (negative indices count from the end)
PySlice(s, a, b) ==
    LET n  == Len(s)
        lo == IF a < 0 THEN Max(a + n, 0) ELSE Min(a, n)
        hi == IF b < 0 THEN Max(b + n, 0) ELSE Min(b, n)
    IN  IF hi <= lo THEN <<>> ELSE SubSeq(s, lo + 1, hi)

\* bool(s.strip()): s holds a non-whitespace atom
StripNonEmpty(s) == \E i \in 1..Len(s) : ~IsSpace(s[i])

-----------------------------------------------------------------------------
(* The parts of the state a specification does not use stay idle *)

\* a result slot: empty until the call has returned, then <<the value>>
NotRun == <<>>
Returned(v) == <<v>>

ChunkIdle ==
    /\ impl = "new_main" /\ text = <<>> /\ max_chars = 1 /\ overlap = 0
    /\ start = 0 /\ chunks = <<>> /\ windows = <<>> /\ pc = "idle"

ScanIdle == doc = <<>> /\ clause_result = NotRun /\ global_result = NotRun

SumLocalsInit ==
    /\ global_flags = <<>> /\ full_doc_summary = "" /\ clauses = <<>>
    /\ clause_risk_levels = <<>> /\ clause_risk_flags = <<>>
    /\ clause_loophole_map = <<>> /\ clause_ai_summaries = <<>>
    /\ final_summary = "" /\ risk_meter = NotRun

SumIdle ==
    /\ full_text = <<>> /\ run_no = 1 /\ sum_pc = "idle" /\ first_run = NotRun
    /\ SumLocalsInit

ParseIdle ==
    /\ ai_response = <<>> /\ json_text = <<>> /\ parse_pc = "idle"
    /\ parse_error = NotRun /\ ai_data = NotRun

ExpIdle ==
    /\ contract_basics = <<>> /\ now = 0 /\ expiration_date = <<>>
    /\ expirationDate = NotRun /\ exp_pc = "idle"

PartyIdle ==
    /\ ai_parties = <<>> /\ parties = NotRun /\ party_error = NotRun /\ party_pc = "idle"

RiskIdle ==
    /\ ai_risks = <<>> /\ risks = NotRun /\ risk_error = NotRun /\ risk_pc = "idle"

ProductIdle ==
    /\ ai_products = <<>> /\ products = NotRun /\ product_error = NotRun /\ product_pc = "idle"

GateIdle ==
    /\ ai_payload = NotRun /\ contract_data = NotRun /\ quality = NotRun /\ validation_errors = NotRun
    /\ printed = <<>> /\ raised = NotRun /\ written = NotRun /\ gate_pc = "idle"

MapIdle ==
    /\ map_input = NotRun /\ base_mapping = <<>> /\ map_pc = "idle"

RerunIdle ==
    /\ rerun_input = NotRun /\ clock = 0 /\ first_data = NotRun /\ second_data = NotRun /\ rerun_pc = "idle"

MainIdle ==
    /\ files = NotRun /\ files_before = NotRun /\ wrote = {} /\ run = 0 /\ main_pc = "idle" /\ exit_status = 0

AiIdle ==
    /\ model = "None" /\ ai_result = NotRun /\ ai_pc = "idle"

NumericIdle ==
    /\ amount_text = <<>> /\ numeric_value = NotRun /\ numeric_pc = "idle"

AnalyticsIdle ==
    /\ analytics_input = NotRun /\ analytics_data = NotRun /\ analytics_pc = "idle"

RelIdle ==
    relationships = NotRun /\ rel_pc = "idle"

HlIdle ==
    hl_input = NotRun /\ annots = <<>> /\ applied = <<>> /\ highlights_added = 0 /\ hl_result = NotRun /\ hl_pc = "idle"

ReconIdle == ExpIdle /\ PartyIdle /\ RiskIdle /\ ProductIdle /\ GateIdle /\ MapIdle /\ RerunIdle /\ MainIdle /\ AiIdle /\ NumericIdle /\ AnalyticsIdle /\ RelIdle /\ HlIdle

-----------------------------------------------------------------------------
(* sliding_window_chunks *)

ChunkAlphabet == {"a", " "}

\* end = min(start + max_chars, text_length)
WindowEnd(st) == Min(st + max_chars, Len(text))

\* if chunk.strip(): chunks.append(chunk)
AppendIfNonBlank(cs, st) ==
    IF StripNonEmpty(PySlice(text, st, WindowEnd(st)))
    THEN Append(cs, <<st, WindowEnd(st)>>)
    ELSE cs

\* mutant: the step forgets the overlap
Advance_NoOverlap(st) == st + max_chars

\* start += max_chars - overlap
Advance(st) == st + max_chars - overlap

\* mutant: new_main.py breaks as main.py does, only on an empty window
BreakCond_OnEmptyWindow(st) == st >= WindowEnd(st)

\* the break of the loop body: new_main.py:121 "if end == text_length",
\* main.py:26 "if start >= end"
BreakCond(st) ==
    IF impl = "new_main" THEN WindowEnd(st) = Len(text) ELSE st >= WindowEnd(st)

Log(ws, st) ==
    IF Len(ws) < MaxIter THEN Append(ws, <<st, WindowEnd(st)>>) ELSE ws

InBounds == Len(chunks) < MaxIter /\ start > -MaxIter

ChunkInit ==
    /\ ScanIdle /\ SumIdle /\ ParseIdle /\ ReconIdle
    /\ impl \in {"new_main", "main"}
    /\ text \in SeqsUpTo(ChunkAlphabet, MaxLen)
    /\ max_chars \in 0..MaxChars
    /\ overlap \in 0..MaxOverlap
    /\ start = 0
    /\ chunks = <<>>
    /\ windows = <<>>
    /\ pc = "loop"

\* while start < text_length: the condition holds, the body is entered
ChunkEnter ==
    /\ pc = "loop" /\ start < Len(text) /\ InBounds
    /\ pc' = "body"
    /\ UNCHANGED <<impl, text, max_chars, overlap, start, chunks, windows, scanVars, sumVars, parseVars, reconVars>>

\* the loop body, ending in the break
ChunkBreak ==
    /\ pc = "body"
    /\ BreakCond(start)
    /\ chunks' = AppendIfNonBlank(chunks, start)
    /\ windows' = Log(windows, start)
    /\ pc' = "done"
    /\ UNCHANGED <<impl, text, max_chars, overlap, start, scanVars, sumVars, parseVars, reconVars>>

\* the loop body, going round again
ChunkIterate ==
    /\ pc = "body"
    /\ ~BreakCond(start)
    /\ chunks' = AppendIfNonBlank(chunks, start)
    /\ windows' = Log(windows, start)
    /\ start' = Advance(start)
    /\ pc' = "loop"
    /\ UNCHANGED <<impl, text, max_chars, overlap, scanVars, sumVars, parseVars, reconVars>>

\* the loop condition start < text_length is false: return chunks
ChunkExit ==
    /\ pc = "loop" /\ start >= Len(text)
    /\ pc' = "done"
    /\ UNCHANGED <<impl, text, max_chars, overlap, start, chunks, windows, scanVars, sumVars, parseVars, reconVars>>

\* the run goes on beyond the model's bounds
ChunkCut ==
    /\ pc = "loop" /\ start < Len(text) /\ ~InBounds
    /\ pc' = "cut"
    /\ UNCHANGED <<impl, text, max_chars, overlap, start, chunks, windows, scanVars, sumVars, parseVars, reconVars>>

ChunkNext == ChunkEnter \/ ChunkBreak \/ ChunkIterate \/ ChunkExit \/ ChunkCut

ChunkSpec == ChunkInit /\ [][ChunkNext]_vars

\* the loop is scheduled as long as it has a next iteration
ChunkFairSpec == ChunkInit /\ [][ChunkNext]_vars /\ WF_vars(ChunkNext)


-----------------------------------------------------------------------------
(* Regular expressions over atoms                                          *)
(*                                                                         *)
(* The scanner's texts are normalised: an atom is one whitespace           *)
(* character, one punctuation character, or a maximal run of word          *)
(* characters.  A pattern is a sequence of elements:                       *)
(*   eq  w : an atom that is w, ignoring case (a literal between \b or \s+)*)
(*   pre w : an atom that starts with w (a literal after \b or \s+ that    *)
(*           is not closed by \b)                                          *)
(*   suf w : an atom that ends with w (a literal not opened by \b)         *)
(*   sub w : an atom that contains w (a literal with no anchor)            *)
(*   ws    : \s+, one or more whitespace atoms                             *)
(*   sp    : a literal space, exactly one " "                              *)
(***************************************************************************)

Eq(w)  == [k |-> "eq",  w |-> w]
Pre(w) == [k |-> "pre", w |-> w]
Suf(w) == [k |-> "suf", w |-> w]
Sub(w) == [k |-> "sub", w |-> w]
Ws == [k |-> "ws", w |-> ""]
Sp == [k |-> "sp", w |-> ""]

\* str.lower() on the atoms of the model's vocabulary
Lower(a) ==
    CASE a = "May" -> "may"
      [] a = "Governing" -> "governing"
      [] a = "Law" -> "law"
      [] OTHER -> a

\* the words of the vocabulary that start with, end with or contain another
ProperPrefixes == {<<"indemnification", "indemnifi">>, <<"indemnification", "indemnif">>,
                   <<"endeavors", "endeavor">>, <<"maybe", "may">>}
ProperSuffixes == {}
ProperInfixes == {}

StartsWith(a, w) == a = w \/ <<a, w>> \in ProperPrefixes
EndsWith(a, w) == a = w \/ <<a, w>> \in ProperSuffixes
Contains(a, w) == StartsWith(a, w) \/ EndsWith(a, w) \/ <<a, w>> \in ProperInfixes

\* re.IGNORECASE match of one literal element against one atom
AtomMatches(el, a) ==
    CASE el.k = "eq"  -> Lower(a) = el.w
      [] el.k = "pre" -> StartsWith(Lower(a), el.w)
      [] el.k = "suf" -> EndsWith(Lower(a), el.w)
      [] el.k = "sub" -> Contains(Lower(a), el.w)
      [] OTHER -> FALSE

\* the index after the whitespace run that starts at i
RECURSIVE SkipSpaces(_, _)
SkipSpaces(t, i) == IF i <= Len(t) /\ IsSpace(t[i]) THEN SkipSpaces(t, i + 1) ELSE i

\* pattern.match at atom i: the index after the match, 0 when there is none
RECURSIVE MatchFrom(_, _, _, _)
MatchFrom(pat, k, t, i) ==
    IF k > Len(pat) THEN i
    ELSE IF i > Len(t) THEN 0
    ELSE IF pat[k].k = "ws"
         THEN IF IsSpace(t[i]) THEN MatchFrom(pat, k + 1, t, SkipSpaces(t, i)) ELSE 0
    ELSE IF pat[k].k = "sp"
         THEN IF t[i] = " " THEN MatchFrom(pat, k + 1, t, i + 1) ELSE 0
    ELSE IF AtomMatches(pat[k], t[i]) THEN MatchFrom(pat, k + 1, t, i + 1) ELSE 0

MatchStarts(pat, t) == {i \in 1..Len(t) : MatchFrom(pat, 1, t, i) # 0}

\* bool(pattern.search(t))
Search(pat, t) == MatchStarts(pat, t) # {}

\* the part of atom a that a literal element consumes
Consumed(el, a) == IF el.k = "pre" /\ Lower(a) = a THEN el.w ELSE a

\* the atoms of t[i..] consumed by pat[k..], as the matched text
RECURSIVE Span(_, _, _, _)
Span(pat, k, t, i) ==
    IF k > Len(pat) THEN <<>>
    ELSE IF pat[k].k = "ws"
         THEN SubSeq(t, i, SkipSpaces(t, i) - 1) \o Span(pat, k + 1, t, SkipSpaces(t, i))
    ELSE IF pat[k].k = "sp" THEN <<t[i]>> \o Span(pat, k + 1, t, i + 1)
    ELSE <<Consumed(pat[k], t[i])>> \o Span(pat, k + 1, t, i + 1)

\* pattern.search(t).group(0): the text of the leftmost match
Group0(pat, t) ==
    LET i == CHOOSE j \in MatchStarts(pat, t) : \A m \in MatchStarts(pat, t) : j <= m
    IN  Span(pat, 1, t, i)

-----------------------------------------------------------------------------
(* RISK_KEYWORDS and GLOBAL_RISK_RULES (new_main.py:48-82), in declaration  *)
(* order, which is the order a dict is iterated in                         *)

RISK_KEYWORDS == <<
    [pattern_str |-> "\\bwithout\\s+liability\\b", weight |-> 5,
     re |-> <<Eq("without"), Ws, Eq("liability")>>],
    [pattern_str |-> "\\bno\\s+indemnifi", weight |-> 5,
     re |-> <<Eq("no"), Ws, Pre("indemnifi")>>],
    [pattern_str |-> "\\bno\\s+governing\\s+law\\b", weight |-> 5,
     re |-> <<Eq("no"), Ws, Eq("governing"), Ws, Eq("law")>>],
    [pattern_str |-> "\\bno\\s+termination\\b", weight |-> 5,
     re |-> <<Eq("no"), Ws, Eq("termination")>>],
    [pattern_str |-> "\\bmay\\b", weight |-> 3,
     re |-> <<Eq("may")>>],
    [pattern_str |-> "\\bcould\\b", weight |-> 3,
     re |-> <<Eq("could")>>],
    [pattern_str |-> "\\breasonable\\s+endeavor", weight |-> 3,
     re |-> <<Eq("reasonable"), Ws, Pre("endeavor")>>],
    [pattern_str |-> "\\bsubject\\s+to\\s+review\\b", weight |-> 3,
     re |-> <<Eq("subject"), Ws, Eq("to"), Ws, Eq("review")>>],
    [pattern_str |-> "\\bunless\\s+otherwise\\s+agreed\\b", weight |-> 1,
     re |-> <<Eq("unless"), Ws, Eq("otherwise"), Ws, Eq("agreed")>>],
    [pattern_str |-> "\\bbest\\s+efforts\\b", weight |-> 1,
     re |-> <<Eq("best"), Ws, Eq("efforts")>> ] >>

\* the alternation of the third rule: search succeeds when either branch does
GLOBAL_RISK_RULES == <<
    [name |-> "Missing Indemnification Clause", severity |-> 20,
     alts |-> {<<Sub("indemnif")>>}],
    [name |-> "Missing Governing Law Clause", severity |-> 15,
     alts |-> {<<Suf("governing"), Sp, Pre("law")>>}],
    [name |-> "Missing Termination Clause", severity |-> 15,
     alts |-> {<<Suf("termination"), Ws, Eq("for"), Ws, Pre("convenience")>>,
               <<Suf("termination"), Ws, Eq("by"), Ws, Eq("either"), Ws, Pre("party")>>}] >>

-----------------------------------------------------------------------------
(* detect_clause_risk_and_loopholes and detect_global_risks                *)

\* new_main.py:145-150
FlagSeverity(weight) ==
    IF weight >= 5 THEN "HIGH" ELSE IF weight >= 3 THEN "MEDIUM" ELSE "LOW"

\* new_main.py:162-169
SeverityLabel(risk_score) ==
    IF risk_score = 0 THEN "NONE"
    ELSE IF risk_score <= 1 THEN "LOW"
    ELSE IF risk_score <= 3 THEN "MEDIUM"
    ELSE "HIGH"

\* mutant: the weights of the matched patterns are added up
Accumulate_Sum(risk_score, weight) == risk_score + weight

\* risk_score = max(risk_score, weight)
Accumulate(risk_score, weight) == Max(risk_score, weight)

\* mutant: only the LOW patterns count as loopholes
IsLoopholeWeight_Below3(weight) == weight < 3

\* if weight <= 3
IsLoopholeWeight(weight) == weight <= 3

\* the loop of new_main.py:140-159 from pattern k on, acc = the three locals
RECURSIVE ScanPatterns(_, _, _)
ScanPatterns(clause_text, k, acc) ==
    IF k > Len(RISK_KEYWORDS) THEN acc
    ELSE LET kw == RISK_KEYWORDS[k]
         IN  IF Search(kw.re, clause_text)
             THEN ScanPatterns(clause_text, k + 1,
                    [risk_score |-> Accumulate(acc.risk_score, kw.weight),
                     clause_flags |-> Append(acc.clause_flags,
                        [pattern |-> kw.pattern_str, severity |-> FlagSeverity(kw.weight)]),
                     clause_loopholes |->
                        IF IsLoopholeWeight(kw.weight)
                        THEN Append(acc.clause_loopholes, Group0(kw.re, clause_text))
                        ELSE acc.clause_loopholes])
             ELSE ScanPatterns(clause_text, k + 1, acc)

detect_clause_risk_and_loopholes(clause_text) ==
    LET r == ScanPatterns(clause_text, 1,
                [risk_score |-> 0, clause_flags |-> <<>>, clause_loopholes |-> <<>>])
    IN  [severity_label |-> SeverityLabel(r.risk_score),
         clause_flags |-> r.clause_flags,
         clause_loopholes |-> r.clause_loopholes]

\* rule["pattern"].search(full_text)
RuleFound(rule, t) == \E pat \in rule.alts : Search(pat, t)

\* mutant: the flag is raised when the clause is present
RuleFires_WhenPresent(rule, t) == RuleFound(rule, t)

\* if not rule["pattern"].search(full_text)
RuleFires(rule, t) == ~RuleFound(rule, t)

RECURSIVE GlobalScan(_, _, _)
GlobalScan(t, k, flags) ==
    IF k > Len(GLOBAL_RISK_RULES) THEN flags
    ELSE GlobalScan(t, k + 1,
            IF RuleFires(GLOBAL_RISK_RULES[k], t)
            THEN Append(flags, [name |-> GLOBAL_RISK_RULES[k].name,
                                       severity |-> GLOBAL_RISK_RULES[k].severity])
            ELSE flags)

detect_global_risks(t) == GlobalScan(t, 1, <<>>)

-----------------------------------------------------------------------------
(* The scanner and the global checker applied to a text *)

\* the phrases the scanned texts are made of
Fragments == {
    <<"without", " ", "liability">>,
    <<"no", "\n">>,
    <<"indemnification">>,
    <<"Governing", " ", "Law">>,
    <<"termination", " ", "for", " ", "convenience">>,
    <<"May">>,
    <<"may">>,
    <<"maybe", " ", "could", ".">>,
    <<"reasonable", " ", "endeavors">>,
    <<"unless", " ", "otherwise", " ", "agreed">>,
    <<"best", " ", "efforts">> }

\* " ".join(fs)
RECURSIVE JoinFragments(_)
JoinFragments(fs) ==
    IF fs = <<>> THEN <<>>
    ELSE IF Len(fs) = 1 THEN fs[1]
    ELSE fs[1] \o <<" ">> \o JoinFragments(Tail(fs))

Texts == {JoinFragments(fs) : fs \in SeqsUpTo(Fragments, MaxFrags)}

ScanInit ==
    /\ ChunkIdle /\ SumIdle /\ ParseIdle /\ ReconIdle
    /\ doc \in Texts
    /\ clause_result = NotRun
    /\ global_result = NotRun

\* a call of detect_clause_risk_and_loopholes(doc)
DetectClause ==
    /\ clause_result = NotRun
    /\ clause_result' = Returned(detect_clause_risk_and_loopholes(doc))
    /\ UNCHANGED <<doc, global_result, chunkVars, sumVars, parseVars, reconVars>>

\* a call of detect_global_risks(doc)
DetectGlobal ==
    /\ global_result = NotRun
    /\ global_result' = Returned(detect_global_risks(doc))
    /\ UNCHANGED <<doc, clause_result, chunkVars, sumVars, parseVars, reconVars>>

ScanNext == DetectClause \/ DetectGlobal

ScanSpec == ScanInit /\ [][ScanNext]_vars

-----------------------------------------------------------------------------
(* summarize_contract (new_main.py:249-515)                                *)

DEFAULT_MAX_CHARS == 6000
DEFAULT_OVERLAP == 1000
FULL_SUMMARY_LIMIT == 30000

\* sliding_window_chunks of new_main.py as a function of its arguments, the
\* chunks as texts; it is called with max_chars > overlap only
RECURSIVE ChunksFrom(_, _, _, _, _)
ChunksFrom(t, m, o, st, acc) ==
    IF st >= Len(t) THEN acc
    ELSE LET end  == Min(st + m, Len(t))
             acc2 == IF StripNonEmpty(PySlice(t, st, end))
                     THEN Append(acc, PySlice(t, st, end))
                     ELSE acc
         IN  IF end = Len(t) THEN acc2 ELSE ChunksFrom(t, m, o, st + m - o, acc2)

sliding_window_chunks(t, m, o) == ChunksFrom(t, m, o, 0, <<>>)

\* What one call of model.generate_content does: it returns a text, returns a
\* text that holds the words "Failed to generate", or raises, with or without
\* the key-expired message.
AiOutcomes == {"text", "text_failed", "key_expired", "error"}

AiRaises(o) == o \in {"key_expired", "error"}

\* clean_response(resp.text)
AiText(o) == IF o = "text_failed" THEN "AI: Failed to generate" ELSE "AI: summary"

\* "API key expired" in msg or "API_KEY_INVALID" in msg
IsKeyError(o) == o = "key_expired"

\* mutant: errors other than an expired key are raised again
safe_gemini_generate_Reraise(o) ==
    IF ~AiRaises(o) THEN [raised |-> FALSE, value |-> AiText(o)]
    ELSE IF IsKeyError(o)
         THEN [raised |-> FALSE, value |-> "[AI ANALYSIS UNAVAILABLE - API key expired or invalid]"]
         ELSE [raised |-> TRUE, value |-> ""]

\* new_main.py:199-211
safe_gemini_generate(o) ==
    IF ~AiRaises(o) THEN [raised |-> FALSE, value |-> AiText(o)]
    ELSE IF IsKeyError(o)
         THEN [raised |-> FALSE, value |-> "[AI ANALYSIS UNAVAILABLE - API key expired or invalid]"]
         ELSE [raised |-> FALSE, value |-> "[AI ANALYSIS ERROR]"]

\* new_main.py:324-326
FullSummary(o) ==
    IF AiRaises(o) THEN "Failed to generate full summary" ELSE AiText(o)

\* "Failed to generate" in full_doc_summary
HasFailedToGenerate(summary) ==
    summary \in {"Failed to generate full summary", "AI: Failed to generate"}

\* new_main.py:494
numeric_map(lvl) ==
    CASE lvl = "HIGH" -> 5 [] lvl = "MEDIUM" -> 3 [] lvl = "LOW" -> 1 [] lvl = "NONE" -> 0

\* int(min(avg_clause_score * 10, 50)), avg_clause_score = total / n; the sum
\* with the integer global half is truncated afterwards, which takes the floor
\* of this half alone
NormalizedClauseRisk(total, n) ==
    IF 10 * total >= 50 * n THEN 50 ELSE (10 * total) \div n

\* mutant: the global half is not capped
NormalizedGlobalRisk_NoCap(total_global_risk) == total_global_risk

\* min(total_global_risk, 50)
NormalizedGlobalRisk(total_global_risk) == Min(total_global_risk, 50)

\* new_main.py:493-502
RiskMeter(levels, flags) ==
    LET clause_scores == [i \in 1..Len(levels) |-> numeric_map(levels[i])]
        total_global_risk == SumSeq([i \in 1..Len(flags) |-> flags[i].severity])
    IN  NormalizedClauseRisk(SumSeq(clause_scores), Max(Len(clause_scores), 1))
            + NormalizedGlobalRisk(total_global_risk)

\* the documents handed to summarize_contract
DocTexts == {JoinFragments(fs) : fs \in SeqsUpTo(Fragments, MaxDocFrags)}

SumInit ==
    /\ ChunkIdle /\ ScanIdle /\ ParseIdle /\ ReconIdle
    /\ full_text \in DocTexts
    /\ run_no = 1
    /\ sum_pc = "start"
    /\ first_run = NotRun
    /\ SumLocalsInit

\* lines 251-331: the global checks and the full-document summary
SumStart ==
    /\ sum_pc = "start"
    /\ \E o \in AiOutcomes :
          full_doc_summary' =
              IF Len(full_text) <= FULL_SUMMARY_LIMIT
              THEN FullSummary(o)
              ELSE "For lengthy contracts, clause-by-clause analysis has been prioritized"
    /\ global_flags' = detect_global_risks(full_text)
    /\ sum_pc' = "chunk"
    /\ UNCHANGED <<clauses, clause_risk_levels, clause_risk_flags, clause_loophole_map,
                   clause_ai_summaries, final_summary, risk_meter>>
    /\ UNCHANGED <<full_text, run_no, first_run, chunkVars, scanVars, parseVars, reconVars>>

\* lines 334-345
SumChunks ==
    /\ sum_pc = "chunk"
    /\ clauses' = sliding_window_chunks(full_text, DEFAULT_MAX_CHARS, DEFAULT_OVERLAP)
    /\ sum_pc' = "clauses"
    /\ UNCHANGED <<global_flags, full_doc_summary, clause_risk_levels, clause_risk_flags,
                   clause_loophole_map, clause_ai_summaries, final_summary, risk_meter>>
    /\ UNCHANGED <<full_text, run_no, first_run, chunkVars, scanVars, parseVars, reconVars>>

\* lines 347-419: one iteration of the loop over the chunks
SumClause ==
    /\ sum_pc = "clauses"
    /\ Len(clause_ai_summaries) < Len(clauses)
    /\ \E o \in AiOutcomes :
          LET ai == safe_gemini_generate(o)
              r  == detect_clause_risk_and_loopholes(clauses[Len(clause_ai_summaries) + 1])
          IN  IF ai.raised
              THEN /\ sum_pc' = "raised"
                   /\ UNCHANGED <<clause_ai_summaries, clause_risk_levels,
                                  clause_risk_flags, clause_loophole_map>>
              ELSE /\ clause_ai_summaries' = Append(clause_ai_summaries, ai.value)
                   /\ clause_risk_levels' = Append(clause_risk_levels, r.severity_label)
                   /\ clause_risk_flags' = Append(clause_risk_flags, r.clause_flags)
                   /\ clause_loophole_map' = Append(clause_loophole_map, r.clause_loopholes)
                   /\ sum_pc' = "clauses"
    /\ UNCHANGED <<global_flags, full_doc_summary, clauses, final_summary, risk_meter>>
    /\ UNCHANGED <<full_text, run_no, first_run, chunkVars, scanVars, parseVars, reconVars>>

\* generate_consolidated, line 424
GenerateConsolidated ==
    Len(full_text) > FULL_SUMMARY_LIMIT \/ HasFailedToGenerate(full_doc_summary)

\* lines 421-490 with generate_consolidated: the call is inside try/except
SumConsolidate ==
    /\ sum_pc = "clauses"
    /\ Len(clause_ai_summaries) = Len(clauses)
    /\ GenerateConsolidated
    /\ \E o \in AiOutcomes :
          LET ai == safe_gemini_generate(o)
          IN  final_summary' = IF ai.raised THEN "[SUMMARY ERROR]" ELSE ai.value
    /\ sum_pc' = "meter"
    /\ UNCHANGED <<global_flags, full_doc_summary, clauses, clause_risk_levels,
                   clause_risk_flags, clause_loophole_map, clause_ai_summaries, risk_meter>>
    /\ UNCHANGED <<full_text, run_no, first_run, chunkVars, scanVars, parseVars, reconVars>>

\* lines 421-425 without it: final_summary = full_doc_summary
SumKeepFullSummary ==
    /\ sum_pc = "clauses"
    /\ Len(clause_ai_summaries) = Len(clauses)
    /\ ~GenerateConsolidated
    /\ final_summary' = full_doc_summary
    /\ sum_pc' = "meter"
    /\ UNCHANGED <<global_flags, full_doc_summary, clauses, clause_risk_levels,
                   clause_risk_flags, clause_loophole_map, clause_ai_summaries, risk_meter>>
    /\ UNCHANGED <<full_text, run_no, first_run, chunkVars, scanVars, parseVars, reconVars>>

\* lines 493-502
SumMeter ==
    /\ sum_pc = "meter"
    /\ risk_meter' = Returned(RiskMeter(clause_risk_levels, global_flags))
    /\ sum_pc' = "return"
    /\ UNCHANGED <<global_flags, full_doc_summary, clauses, clause_risk_levels,
                   clause_risk_flags, clause_loophole_map, clause_ai_summaries,
                   final_summary>>
    /\ UNCHANGED <<full_text, run_no, first_run, chunkVars, scanVars, parseVars, reconVars>>

\* the first seven values of the tuple returned at lines 506-515
Returns == <<clauses, clause_risk_levels, clause_risk_flags, clause_loophole_map,
             global_flags, risk_meter[1], final_summary>>

\* lines 506-515; what the first run returned is kept for the comparison
SumReturn ==
    /\ sum_pc = "return"
    /\ sum_pc' = "returned"
    /\ first_run' = IF run_no = 1 THEN Returned(Returns) ELSE first_run
    /\ UNCHANGED <<sumLocals, full_text, run_no, chunkVars, scanVars, parseVars, reconVars>>

\* summarize_contract is called again on the same document
SumSecondRun ==
    /\ sum_pc = "returned" /\ run_no = 1
    /\ run_no' = 2
    /\ sum_pc' = "start"
    /\ global_flags' = <<>> /\ full_doc_summary' = "" /\ clauses' = <<>>
    /\ clause_risk_levels' = <<>> /\ clause_risk_flags' = <<>>
    /\ clause_loophole_map' = <<>> /\ clause_ai_summaries' = <<>>
    /\ final_summary' = "" /\ risk_meter' = NotRun
    /\ UNCHANGED <<full_text, first_run, chunkVars, scanVars, parseVars, reconVars>>

SumNext ==
    \/ SumStart \/ SumChunks \/ SumClause \/ SumConsolidate \/ SumKeepFullSummary
    \/ SumMeter \/ SumReturn \/ SumSecondRun

SumSpec == SumInit /\ [][SumNext]_vars

\* The risk meter on its own: summarize_contract at line 493, for every list of
\* clause risk levels and every list of global flags
RiskLevels == {"NONE", "LOW", "MEDIUM", "HIGH"}

FlagSeverities == {10, 20, 30}

MeterInit ==
    /\ ChunkIdle /\ ScanIdle /\ ParseIdle /\ ReconIdle
    /\ full_text = <<>> /\ run_no = 1 /\ first_run = NotRun
    /\ sum_pc = "meter"
    /\ clause_risk_levels \in SeqsUpTo(RiskLevels, MaxClauses)
    /\ global_flags \in SeqsUpTo([name : {"flag"}, severity : FlagSeverities], MaxFlags)
    /\ full_doc_summary = "" /\ clauses = <<>> /\ clause_risk_flags = <<>>
    /\ clause_loophole_map = <<>> /\ clause_ai_summaries = <<>>
    /\ final_summary = "" /\ risk_meter = NotRun

MeterNext == SumMeter

MeterSpec == MeterInit /\ [][MeterNext]_vars

-----------------------------------------------------------------------------
(***************************************************************************)
(* parse_ai_json_response (comprehensive_analysis.py:537-667)              *)
(*                                                                         *)
(* The AI output is a sequence of tokens: the markers ```json and ```,     *)
(* the JSON punctuation { } [ ] , :, string and number literals, the       *)
(* literal null, whitespace (" " and "\n") and words of prose.  No literal *)
(* or word holds a brace, a bracket, a comma or a backquote.  A string of  *)
(* the model cannot hold a backquote: the three backquotes of a marker are *)
(* written as three tildes.                                                *)
(***************************************************************************)

JSON_MARKER == "~~~json"
FENCE == "~~~"
SENTINEL == "\"Not specified\""

StringTokens == {"\"a\"", "\"b\"", "\"c\"", SENTINEL}
NumberTokens == {"1", "2", "3"}

\* the least element of a set of naturals, 0 for the empty set
First(S) == IF S = {} THEN 0 ELSE CHOOSE i \in S : \A j \in S : i <= j
\* the greatest element of a set of naturals, 0 for the empty set
Last(S) == IF S = {} THEN 0 ELSE CHOOSE i \in S : \A j \in S : j <= i

\* the positions of s that hold a token of T
Positions(s, T) == {i \in 1..Len(s) : s[i] \in T}

\* s.count(tok)
Count(s, tok) == Cardinality(Positions(s, {tok}))

\* s.strip()
Strip(s) ==
    LET solid == {i \in 1..Len(s) : ~IsSpace(s[i])}
    IN  IF solid = {} THEN <<>> ELSE SubSeq(s, First(solid), Last(solid))

Repeat(tok, n) == [i \in 1..n |-> tok]

\* the test of line 555: the marker ```json occurs in ai_response
HasJsonMarker(resp) == Positions(resp, {JSON_MARKER}) # {}

\* lines 557-567: the text between the first ```json and the next ```, or all
\* the text after the marker when no ``` follows; find() returns -1 (here 0)
\* when the marker is absent and json_text stays ai_response.  The end
\* marker is a prefix of the start marker, so a second ```json closes the
\* block as well.
FencedText(resp) ==
    LET start_idx == First(Positions(resp, {JSON_MARKER}))
        end_idx   == First({j \in Positions(resp, {FENCE, JSON_MARKER}) : j > start_idx})
    IN  IF start_idx = 0 THEN resp
        ELSE IF end_idx # 0 THEN Strip(SubSeq(resp, start_idx + 1, end_idx - 1))
        ELSE Strip(SubSeq(resp, start_idx + 1, Len(resp)))

\* re.search(r'\{.*\}', ai_response, re.DOTALL): <<group(0)>>, or <<>> for None.
\* The leftmost match starts at the first "{" that a "}" follows, which is the
\* first "{" of all; the greedy .* runs to the last "}".
BraceMatch(resp) ==
    LET open  == First(Positions(resp, {"{"}))
        close == Last({j \in Positions(resp, {"}"}) : j > open})
    IN  IF open = 0 \/ close = 0 THEN <<>> ELSE <<SubSeq(resp, open, close)>>

\* json_text.replace('null', '"Not specified"')
ReplaceNull(s) == [i \in 1..Len(s) |-> IF s[i] = "null" THEN SENTINEL ELSE s[i]]

\* json_text.strip().endswith('}')
EndsWithBrace(s) == LET t == Strip(s) IN t # <<>> /\ t[Len(t)] = "}"

\* re.sub(r',\s*$', '', json_text.strip())
StripTrailingComma(s) ==
    LET t == Strip(s)
    IN  IF t # <<>> /\ t[Len(t)] = "," THEN SubSeq(t, 1, Len(t) - 1) ELSE t

\* lines 586-601: missing ']' first, then missing '}'
AppendMissing(s) ==
    LET missing_braces   == Count(s, "{") - Count(s, "}")
        missing_brackets == Count(s, "[") - Count(s, "]")
    IN  s \o Repeat("]", Max(missing_brackets, 0)) \o Repeat("}", Max(missing_braces, 0))

\* re.sub(r',(\s*[}\]])', r'\1', json_text): a comma goes when the next
\* token that is not whitespace is a closer
DropCommaBeforeCloser(s) ==
    LET next(i) == First({j \in (i + 1)..Len(s) : ~IsSpace(s[j])})
        goes(i) == s[i] = "," /\ next(i) # 0 /\ s[next(i)] \in {"}", "]"}
    IN  SelectSeq([i \in 1..Len(s) |-> <<i, s[i]>>], LAMBDA e : ~goes(e[1]))

Tokens(pairs) == [i \in 1..Len(pairs) |-> pairs[i][2]]

\* lines 580-605
RepairIncomplete(s) ==
    IF EndsWithBrace(s) THEN s
    ELSE Tokens(DropCommaBeforeCloser(AppendMissing(StripTrailingComma(s))))

\* json.loads: a pushdown recogniser of JSON over the tokens that are not
\* whitespace.  st is what the grammar expects next, stack the open containers.
JsonStep(tok, st, stack) ==
    LET top  == IF stack = <<>> THEN "" ELSE stack[Len(stack)]
        pop  == SubSeq(stack, 1, Len(stack) - 1)
        fail == [st |-> "fail", stack |-> stack]
    IN  CASE st \in {"value", "value_or_close"} ->
                 IF tok \in StringTokens \cup NumberTokens \cup {"null"}
                     THEN [st |-> "after", stack |-> stack]
                 ELSE IF tok = "{" THEN [st |-> "key_or_close", stack |-> Append(stack, "{")]
                 ELSE IF tok = "[" THEN [st |-> "value_or_close", stack |-> Append(stack, "[")]
                 ELSE IF tok = "]" /\ st = "value_or_close" THEN [st |-> "after", stack |-> pop]
                 ELSE fail
          [] st \in {"key", "key_or_close"} ->
                 IF tok \in StringTokens THEN [st |-> "colon", stack |-> stack]
                 ELSE IF tok = "}" /\ st = "key_or_close" THEN [st |-> "after", stack |-> pop]
                 ELSE fail
          [] st = "colon" ->
                 IF tok = ":" THEN [st |-> "value", stack |-> stack] ELSE fail
          [] st = "after" ->
                 IF tok = "," /\ top = "{" THEN [st |-> "key", stack |-> stack]
                 ELSE IF tok = "," /\ top = "[" THEN [st |-> "value", stack |-> stack]
                 ELSE IF tok = "}" /\ top = "{" THEN [st |-> "after", stack |-> pop]
                 ELSE IF tok = "]" /\ top = "[" THEN [st |-> "after", stack |-> pop]
                 ELSE fail
          [] OTHER -> fail

RECURSIVE JsonRun(_, _, _)
JsonRun(s, i, cfg) ==
    IF i > Len(s) \/ cfg.st = "fail" THEN cfg
    ELSE JsonRun(s, i + 1, JsonStep(s[i], cfg.st, cfg.stack))

\* json.loads(json_text) returns
IsJson(s) ==
    LET solid == SelectSeq(s, LAMBDA tok : ~IsSpace(tok))
        end   == JsonRun(solid, 1, [st |-> "value", stack |-> <<>>])
    IN  end.st = "after" /\ end.stack = <<>>

\* ---- the AI outputs handed to parse_ai_json_response

\* {"a": [1,2,3]}
ArrayDocument ==
    <<"{", "\"a\"", ":", " ", "[", "1", ",", "2", ",", "3", "]", "}">>
\* {"a": [{"b": 1}]}
NestedDocument ==
    <<"{", "\"a\"", ":", " ", "[", "{", "\"b\"", ":", " ", "1", "}", "]", "}">>
\* {"a": null, "b": [1,], "c": 2}
SloppyDocument ==
    <<"{", "\"a\"", ":", " ", "null", ",", " ", "\"b\"", ":", " ", "[", "1", ",", "]",
      ",", " ", "\"c\"", ":", " ", "2", "}">>
Documents == {ArrayDocument, NestedDocument, SloppyDocument}

\* a document, whole or cut off after any token
Payloads == UNION {{SubSeq(d, 1, k) : k \in 0..Len(d)} : d \in Documents}

\* prose around the payload, with and without braces of its own
ProseFragments == {<<"Here">>, <<"{", "note", "}">>}

RECURSIVE JoinProse(_)
JoinProse(fs) ==
    IF fs = <<>> THEN <<>>
    ELSE IF Len(fs) = 1 THEN Head(fs)
    ELSE Head(fs) \o <<" ">> \o JoinProse(Tail(fs))

Prose == {JoinProse(fs) : fs \in SeqsUpTo(ProseFragments, MaxProse)}

Openers == {<<>>, <<JSON_MARKER, "\n">>, <<FENCE, "\n">>}
Closers == {<<>>, <<"\n", FENCE>>}

\* prose, an opening marker, a payload, a closing marker, prose
Wrap(before, opener, payload, closer, after) ==
    (IF before = <<>> THEN <<>> ELSE before \o <<"\n">>)
    \o opener \o payload \o closer
    \o (IF after = <<>> THEN <<>> ELSE <<"\n">> \o after)

AiResponses ==
    {Wrap(b, o, p, c, a) : b \in Prose, o \in Openers, p \in Payloads,
                           c \in Closers, a \in Prose}

ParseInit ==
    /\ ChunkIdle /\ ScanIdle /\ SumIdle /\ ReconIdle
    /\ ai_response \in AiResponses
    /\ json_text = <<>>
    /\ parse_pc = "extract"
    /\ parse_error = NotRun
    /\ ai_data = NotRun

\* lines 552-574: choose the JSON payload
ParseExtract ==
    /\ parse_pc = "extract"
    /\ IF HasJsonMarker(ai_response)
         THEN /\ json_text' = FencedText(ai_response)
              /\ parse_pc' = "clean"
              /\ UNCHANGED parse_error
         ELSE IF BraceMatch(ai_response) # <<>>
         THEN /\ json_text' = BraceMatch(ai_response)[1]
              /\ parse_pc' = "clean"
              /\ UNCHANGED parse_error
         ELSE /\ json_text' = ai_response
              /\ parse_pc' = "raised"
              /\ parse_error' = Returned("ValueError: No JSON found in AI response")
    /\ UNCHANGED <<ai_response, ai_data, chunkVars, scanVars, sumVars, reconVars>>

\* lines 577-605: replace null, repair an incomplete payload
ParseClean ==
    /\ parse_pc = "clean"
    /\ json_text' = RepairIncomplete(ReplaceNull(json_text))
    /\ parse_pc' = "load"
    /\ UNCHANGED <<ai_response, parse_error, ai_data, chunkVars, scanVars, sumVars, reconVars>>

\* lines 607 and 665-667: json.loads; a JSONDecodeError is re-raised
ParseLoad ==
    /\ parse_pc = "load"
    /\ IF IsJson(json_text)
         THEN /\ ai_data' = Returned(SelectSeq(json_text, LAMBDA tok : ~IsSpace(tok)))
              /\ parse_pc' = "loaded"
              /\ UNCHANGED parse_error
         ELSE /\ parse_pc' = "raised"
              /\ parse_error' = Returned("JSONDecodeError")
              /\ UNCHANGED ai_data
    /\ UNCHANGED <<ai_response, json_text, chunkVars, scanVars, sumVars, reconVars>>

ParseNext == ParseExtract \/ ParseClean \/ ParseLoad

ParseSpec == ParseInit /\ [][ParseNext]_vars

-----------------------------------------------------------------------------
(***************************************************************************)
(* The values of a JSON payload.  A value is a record [k, v]: k is its     *)
(* kind and v the number it carries.  A date "YYYY-MM-DD" carries its day  *)
(* number; "N years" is the text of a number N followed by the word years. *)
(***************************************************************************)

Missing == [k |-> "missing", v |-> 0]       \* the key is absent: dict.get gives None
Sentinel == [k |-> "sentinel", v |-> 0]     \* "Not specified", also what a JSON null becomes (line 577)
EmptyStr == [k |-> "empty", v |-> 0]        \* ""
ProseStr == [k |-> "prose", v |-> 0]        \* a text that is neither a date nor a number
DateStr(d) == [k |-> "date", v |-> d]       \* the date of day d, as "YYYY-MM-DD"
Num(n) == [k |-> "num", v |-> n]            \* the JSON integer n
NumStr(n) == [k |-> "numstr", v |-> n]      \* the text "n"
YearsStr(n) == [k |-> "years", v |-> n]     \* the text "n years"
Fraction == [k |-> "fraction", v |-> 0]     \* a JSON number with a fractional part, such as 2.5

\* bool(x) of a payload value
Truthy(x) == ~(x.k \in {"missing", "empty"} \/ x = Num(0))

\* ---- the expiration date (comprehensive_analysis.py:612-631)

DEFAULT_TERM_YEARS == 10
DAYS_PER_YEAR == 365

\* datetime.strptime(x, "%Y-%m-%d") returns
ParsesAsDate(x) == x.k = "date"

\* int(str(x).replace("years", "").strip()) returns
ParsesAsInt(x) == x.k \in {"num", "numstr", "years"}

ExpirationValues == {Missing, Sentinel, EmptyStr} \cup {DateStr(d) : d \in 0..MaxDay}
EffectiveValues == {Missing, Sentinel, ProseStr} \cup {DateStr(d) : d \in 0..MaxDay}
TermValues ==
    {Missing, Sentinel, ProseStr, Fraction}
        \cup {Num(n) : n \in 0..MaxYears} \cup {YearsStr(n) : n \in 1..MaxYears}

ExpiryInit ==
    /\ ChunkIdle /\ ScanIdle /\ SumIdle /\ ParseIdle /\ PartyIdle /\ RiskIdle /\ ProductIdle /\ GateIdle /\ MapIdle /\ RerunIdle /\ MainIdle /\ AiIdle /\ NumericIdle /\ AnalyticsIdle /\ RelIdle /\ HlIdle
    /\ contract_basics \in [expiration_date : ExpirationValues,
                            effective_date : EffectiveValues,
                            contract_term_years : TermValues]
    /\ now \in 0..MaxDay
    /\ expiration_date = Missing
    /\ expirationDate = NotRun
    /\ exp_pc = "calculate"

\* lines 612-624
CalculatedExpiration(basics) ==
    LET given == basics.expiration_date
        effective_date == basics.effective_date
        term_years == IF basics.contract_term_years = Missing
                        THEN NumStr(DEFAULT_TERM_YEARS)
                        ELSE basics.contract_term_years
    IN  IF Truthy(given) /\ given # Sentinel THEN given
        ELSE IF Truthy(effective_date) /\ Truthy(term_years)
          THEN IF ParsesAsDate(effective_date) /\ ParsesAsInt(term_years)
                 THEN DateStr(effective_date.v + DAYS_PER_YEAR * term_years.v)
                 ELSE Sentinel
        ELSE given

ExpiryCalculate ==
    /\ exp_pc = "calculate"
    /\ expiration_date' = CalculatedExpiration(contract_basics)
    /\ exp_pc' = "emit"
    /\ UNCHANGED <<contract_basics, now, expirationDate, expFrame>>

\* line 631: expiration_date or (datetime.now() + timedelta(days=365))
ExpiryEmit ==
    /\ exp_pc = "emit"
    /\ expirationDate' = Returned(IF Truthy(expiration_date) THEN expiration_date
                                  ELSE DateStr(now + DAYS_PER_YEAR))
    /\ exp_pc' = "done"
    /\ UNCHANGED <<contract_basics, now, expiration_date, expFrame>>

ExpiryNext == ExpiryCalculate \/ ExpiryEmit

ExpirySpec == ExpiryInit /\ [][ExpiryNext]_vars

-----------------------------------------------------------------------------
(***************************************************************************)
(* convert_ai_parties (comprehensive_analysis.py:719-804)                  *)
(*                                                                         *)
(* A legal name is a sequence of words, joined by single spaces.  What the *)
(* code asks of a name is asked of its words through the tables below,     *)
(* which hold, for every word of the vocabulary, the facts about its       *)
(* characters.                                                             *)
(***************************************************************************)

MIN_NAME_LENGTH == 3
MIN_PARTIES == 2

\* lines 729-735, each entry as its words
excluded_placeholders ==
    << <<"party", "a">>, <<"party", "b">>, <<"party", "1">>, <<"party", "2">>,
       <<"party", "one">>, <<"party", "two">>,
       <<"company", "a">>, <<"company", "b">>, <<"company", "1">>, <<"company", "2">>,
       <<"company", "one">>, <<"company", "two">>,
       <<"not", "specified">>, <<"not", "available">>, <<"to", "be", "determined">>,
       <<"tbd">>, <<"n/a">>,
       <<"first", "party">>, <<"second", "party">>, <<"third", "party">>,
       <<"contractor">>, <<"client">>, <<"supplier">>, <<"customer">>, <<"vendor">>,
       <<"buyer">>, <<"seller">>, <<"licensor">>, <<"licensee">> >>

\* line 743
COMPANY_INDICATORS ==
    {"Inc", "LLC", "Ltd", "Corporation", "Company", "Limited", "Corp", "Incorporated",
     "International", "Holdings", "Group", "Enterprises", "Pte", "Pty", "GmbH", "AG",
     "SA", "SAS"}

NameWords == {"Acme", "acme", "Inc", "Party", "A", "Administrators", "Third", "Client",
              "ClientEarth", "Bob", "Al", "USA", "TBD", "Company", "Jane", "Doe"}

\* len(word)
WordLen(w) ==
    CASE w \in {"A"} -> 1
      [] w \in {"Al"} -> 2
      [] w \in {"Inc", "Bob", "USA", "TBD", "Doe"} -> 3
      [] w \in {"Acme", "acme", "Jane"} -> 4
      [] w \in {"Party", "Third"} -> 5
      [] w = "Client" -> 6
      [] w = "Company" -> 7
      [] w = "ClientEarth" -> 11
      [] w = "Administrators" -> 14

\* word.lower()
WordLower(w) ==
    CASE w = "Acme" -> "acme"
      [] w = "Inc" -> "inc"
      [] w = "Party" -> "party"
      [] w = "A" -> "a"
      [] w = "Administrators" -> "administrators"
      [] w = "Third" -> "third"
      [] w = "Client" -> "client"
      [] w = "ClientEarth" -> "clientearth"
      [] w = "Bob" -> "bob"
      [] w = "Al" -> "al"
      [] w = "USA" -> "usa"
      [] w = "TBD" -> "tbd"
      [] w = "Company" -> "company"
      [] w = "Jane" -> "jane"
      [] w = "Doe" -> "doe"
      [] OTHER -> w

\* word[0].isupper()
WordIsCapitalized(w) == w # "acme"

\* <<u, v>>: the lower-case word u starts with, ends with, or holds v; v runs
\* over the words of the placeholders
LowerPrefixes == {<<"administrators", "a">>, <<"acme", "a">>, <<"al", "a">>,
                  <<"bob", "b">>, <<"clientearth", "client">>}
LowerSuffixes == {<<"usa", "a">>, <<"bob", "b">>}
LowerInfixes == {<<"party", "a">>, <<"company", "a">>, <<"jane", "a">>,
                 <<"administrators", "to">>, <<"clientearth", "a">>, <<"tbd", "b">>}

LowerStartsWith(u, v) == u = v \/ <<u, v>> \in LowerPrefixes
LowerEndsWith(u, v) == u = v \/ <<u, v>> \in LowerSuffixes
LowerHolds(u, v) == LowerStartsWith(u, v) \/ LowerEndsWith(u, v) \/ <<u, v>> \in LowerInfixes

\* <<w, ind>>: the word w holds the indicator ind, case kept
WordIndicators == {<<"Inc", "Inc">>, <<"Company", "Company">>, <<"USA", "SA">>}

\* len(legal_name)
NameLen(name) ==
    IF name = <<>> THEN 0
    ELSE SumSeq([i \in 1..Len(name) |-> WordLen(name[i])]) + (Len(name) - 1)

\* placeholder in legal_name.lower()
HoldsPlaceholder(name, ph) ==
    LET k == Len(ph)
    IN  IF k = 1
          THEN \E i \in 1..Len(name) : LowerHolds(WordLower(name[i]), ph[1])
          ELSE \E i \in 1..(Len(name) - k + 1) :
                  /\ LowerEndsWith(WordLower(name[i]), ph[1])
                  /\ \A j \in 2..(k - 1) : WordLower(name[i + j - 1]) = ph[j]
                  /\ LowerStartsWith(WordLower(name[i + k - 1]), ph[k])

HasPlaceholder(name) ==
    \E p \in 1..Len(excluded_placeholders) : HoldsPlaceholder(name, excluded_placeholders[p])

\* any(indicator in legal_name for indicator in [...])
HasIndicator(name) ==
    \E i \in 1..Len(name) : \E ind \in COMPANY_INDICATORS : <<name[i], ind>> \in WordIndicators

\* legal_name[0].isupper() and len(legal_name.split()) >= 2
LooksLikeProperName(name) == WordIsCapitalized(name[1]) /\ Len(name) >= 2

\* lines 738-746
IsValidName(name) ==
    /\ name # <<>>
    /\ NameLen(name) > MIN_NAME_LENGTH
    /\ ~HasPlaceholder(name)
    /\ (HasIndicator(name) \/ LooksLikeProperName(name))

\* ---- the candidates handed to convert_ai_parties

PartyNames ==
    { <<"Acme", "Inc">>, <<"Jane", "Doe">>, <<"acme", "Inc">>, <<"acme", "Doe">>, <<"Acme">>,
      <<"Inc">>, <<"Al", "A">>, <<"Party", "A">>, <<"Third", "Party", "Administrators">>,
      <<"Party", "Acme", "Inc">>, <<"ClientEarth", "Inc">>, <<"USA">>, <<"Bob", "USA">>,
      <<"Company", "A">>, <<"Acme", "Company">>, <<"Company", "Acme">>, <<"TBD", "Inc">> }

\* a candidate: a dict with a legal_name that is a text, a dict with a
\* legal_name that is a number, a dict with no legal_name, or no dict at all
PartyCandidates ==
    {[kind |-> "dict", legal_name |-> n] : n \in PartyNames}
        \cup {[kind |-> k, legal_name |-> <<>>] : k \in {"dict_numeric_name", "dict_no_name", "not_dict"}}

PartiesInit ==
    /\ ChunkIdle /\ ScanIdle /\ SumIdle /\ ParseIdle /\ ExpIdle /\ RiskIdle /\ ProductIdle /\ GateIdle /\ MapIdle /\ RerunIdle /\ MainIdle /\ AiIdle /\ NumericIdle /\ AnalyticsIdle /\ RelIdle /\ HlIdle
    /\ ai_parties \in SeqsUpTo(PartyCandidates, MaxParties)
    /\ parties = NotRun
    /\ party_error = NotRun
    /\ party_pc = "call"

\* lines 723-799: the accepted candidates, in order, each with its id
RECURSIVE AcceptedParties(_, _)
AcceptedParties(cands, i) ==
    IF i > Len(cands) THEN <<>>
    ELSE LET party == cands[i]
         IN  IF party.kind = "dict" /\ IsValidName(party.legal_name)
               THEN <<[id |-> i, legalName |-> party.legal_name]>> \o AcceptedParties(cands, i + 1)
               ELSE AcceptedParties(cands, i + 1)

\* line 725: .strip() of a legal_name that is no text raises AttributeError
StripRaises(cands) == \E i \in 1..Len(cands) : cands[i].kind = "dict_numeric_name"

\* mutant: one party is enough
TooFewParties_One(found) == Len(found) < 1

\* line 801
TooFewParties(found) == Len(found) < MIN_PARTIES

\* the whole call
ConvertParties ==
    /\ party_pc = "call"
    /\ IF StripRaises(ai_parties)
         THEN /\ party_pc' = "raised"
              /\ party_error' = Returned("AttributeError")
              /\ UNCHANGED parties
       ELSE IF TooFewParties(AcceptedParties(ai_parties, 1))
         THEN /\ party_pc' = "raised"
              /\ party_error' = Returned("ValueError: Insufficient parties identified from AI response - minimum 2 required")
              /\ UNCHANGED parties
       ELSE /\ party_pc' = "returned"
            /\ parties' = Returned(AcceptedParties(ai_parties, 1))
            /\ UNCHANGED party_error
    /\ UNCHANGED <<ai_parties, partyFrame>>

PartiesNext == ConvertParties

PartiesSpec == PartiesInit /\ [][PartiesNext]_vars

-----------------------------------------------------------------------------
(***************************************************************************)
(* convert_ai_risks (comprehensive_analysis.py:935-1009)                   *)
(*                                                                         *)
(* A risk_score is a record [k, v].  A number carries its value in tenths  *)
(* (v = 557 is 55.7), so that a score with a fractional part can be told   *)
(* from a whole one.                                                       *)
(***************************************************************************)

MIN_RISK_SCORE == 20
MAX_RISK_SCORE == 95

NoScore == [k |-> "missing", v |-> 0]           \* no risk_score key
SentinelScore == [k |-> "sentinel", v |-> 0]    \* "Not specified", what a JSON null becomes
TextScore == [k |-> "text", v |-> 850]          \* the text "85"
BoolScore(b) == [k |-> "bool", v |-> IF b THEN 10 ELSE 0]   \* JSON true, false
Score(tenths) == [k |-> "num", v |-> tenths]    \* the JSON number tenths / 10

\* bool(risk_score)
ScoreIsTruthy(sc) == sc.k \in {"sentinel", "text"} \/ (sc.k \in {"num", "bool"} /\ sc.v # 0)

\* isinstance(risk_score, (int, float)): a bool is an int
ScoreIsNumber(sc) == sc.k \in {"num", "bool"}

\* int(x) for x = tenths / 10: truncation toward zero
IntOf(tenths) == IF tenths >= 0 THEN tenths \div 10 ELSE -((-tenths) \div 10)

\* mutant: the score is not clamped
ClampScore_Identity(n) == n

\* max(20, min(95, n))
ClampScore(n) == Max(MIN_RISK_SCORE, Min(MAX_RISK_SCORE, n))

\* line 940: isinstance(risk, dict) and risk.get("risk_title")
IsRiskItem(risk) == risk.kind = "dict" /\ risk.has_title

\* lines 947-949
ScoreAccepted(sc) == ScoreIsTruthy(sc) /\ ScoreIsNumber(sc)

RiskScores ==
    {NoScore, SentinelScore, TextScore, BoolScore(TRUE), BoolScore(FALSE)}
        \cup {Score(t) : t \in {0, 5, 195, 250, 557, 900, 959, 960, 1500, -50}}

RiskCandidates ==
    {[kind |-> "dict", has_title |-> TRUE, risk_score |-> sc] : sc \in RiskScores}
        \cup {[kind |-> "dict", has_title |-> FALSE, risk_score |-> sc] : sc \in {NoScore, Score(250)}}
        \cup {[kind |-> "not_dict", has_title |-> FALSE, risk_score |-> NoScore]}

RisksInit ==
    /\ ChunkIdle /\ ScanIdle /\ SumIdle /\ ParseIdle /\ ExpIdle /\ PartyIdle /\ ProductIdle /\ GateIdle /\ MapIdle /\ RerunIdle /\ MainIdle /\ AiIdle /\ NumericIdle /\ AnalyticsIdle /\ RelIdle /\ HlIdle
    /\ ai_risks \in SeqsUpTo(RiskCandidates, MaxRisks)
    /\ risks = NotRun
    /\ risk_error = NotRun
    /\ risk_pc = "call"

\* lines 939-1003 when no score is refused: the risks appended, in order
RECURSIVE ConvertedRisks(_, _)
ConvertedRisks(cands, i) ==
    IF i > Len(cands) THEN <<>>
    ELSE IF IsRiskItem(cands[i])
      THEN <<[id |-> i, riskScore |-> ClampScore(IntOf(cands[i].risk_score.v))]>>
               \o ConvertedRisks(cands, i + 1)
      ELSE ConvertedRisks(cands, i + 1)

\* the whole call
ConvertRisks ==
    /\ risk_pc = "call"
    /\ IF \E i \in 1..Len(ai_risks) : IsRiskItem(ai_risks[i]) /\ ~ScoreAccepted(ai_risks[i].risk_score)
         THEN /\ risk_pc' = "raised"
              /\ risk_error' = Returned("ValueError: AI must provide valid risk scores (20-95) for all risks")
              /\ UNCHANGED risks
       ELSE IF ConvertedRisks(ai_risks, 1) = <<>>
         THEN /\ risk_pc' = "raised"
              /\ risk_error' = Returned("ValueError: No risks identified from AI response")
              /\ UNCHANGED risks
       ELSE /\ risk_pc' = "returned"
            /\ risks' = Returned(ConvertedRisks(ai_risks, 1))
            /\ UNCHANGED risk_error
    /\ UNCHANGED <<ai_risks, riskFrame>>

RisksNext == ConvertRisks

RisksSpec == RisksInit /\ [][RisksNext]_vars

-----------------------------------------------------------------------------
(***************************************************************************)
(* convert_ai_products (comprehensive_analysis.py:1032-1157)               *)
(*                                                                         *)
(* A quantity carries its value in tenths.  A quantity text is taken by    *)
(* what re.search(r'([\d,]+(?:\.\d+)?)') finds in it: no number, a number, *)
(* or commas alone, which float() refuses.                                 *)
(***************************************************************************)

DEFAULT_QUANTITY == 1
MIN_PRODUCT_NAME_LENGTH == 3

\* the facts lines 1054-1063 ask of a name: its length, whether it holds an
\* excluded fragment, starts with an article, is all lower case, is all upper
\* case, holds a product indicator, starts with a capital and is none of the
\* five generic words
ProductNameFacts(name) ==
    CASE name = "Vitamin C Supplement" ->
             [len |-> 20, fragment |-> FALSE, article |-> FALSE, all_lower |-> FALSE,
              all_upper |-> FALSE, indicator |-> TRUE, proper |-> TRUE]
      [] name = "Acme Router X1" ->
             [len |-> 14, fragment |-> FALSE, article |-> FALSE, all_lower |-> FALSE,
              all_upper |-> FALSE, indicator |-> FALSE, proper |-> TRUE]
      [] name = "widget pro" ->
             [len |-> 10, fragment |-> FALSE, article |-> FALSE, all_lower |-> TRUE,
              all_upper |-> FALSE, indicator |-> FALSE, proper |-> FALSE]
      [] name = "Products and Services" ->
             [len |-> 21, fragment |-> TRUE, article |-> FALSE, all_lower |-> FALSE,
              all_upper |-> FALSE, indicator |-> TRUE, proper |-> TRUE]
      [] name = "Pro" ->
             [len |-> 3, fragment |-> FALSE, article |-> FALSE, all_lower |-> FALSE,
              all_upper |-> FALSE, indicator |-> FALSE, proper |-> TRUE]

ProductNames == {"Vitamin C Supplement", "Acme Router X1", "widget pro",
                 "Products and Services", "Pro"}

\* lines 1054-1063
IsValidProduct(name) ==
    LET f == ProductNameFacts(name)
    IN  /\ f.len > MIN_PRODUCT_NAME_LENGTH
        /\ ~f.fragment
        /\ ~f.article
        /\ ~f.all_lower
        /\ ~f.all_upper
        /\ (f.indicator \/ f.proper)

NoQuantity == [k |-> "missing", v |-> 0]          \* the key is absent, or the text is ""
SentinelQuantity == [k |-> "sentinel", v |-> 0]   \* "Not specified"
Quantity(tenths) == [k |-> "num", v |-> tenths]   \* the JSON number tenths / 10
QuantityText(tenths) == [k |-> "text", v |-> tenths]   \* a text whose first number is tenths / 10
WordsOnly == [k |-> "words", v |-> 0]             \* a text without a digit or comma, "several"
CommaOnly == [k |-> "comma", v |-> 0]             \* a text whose first match is ",": float('') raises

\* bool(x) of a quantity field
QuantityIsTruthy(q) == ~(q.k = "missing" \/ q = Quantity(0))

\* lines 1068-1081
ExtractQuantity(product) ==
    LET quantity_text == IF QuantityIsTruthy(product.quantity_text)
                           THEN product.quantity_text ELSE product.quantity
        quantity_numeric == product.quantity_numeric
    IN  IF QuantityIsTruthy(quantity_numeric) /\ quantity_numeric.k = "num"
          THEN IntOf(quantity_numeric.v)
        ELSE IF QuantityIsTruthy(quantity_text) /\ quantity_text.k \in {"text", "num"}
          THEN IntOf(quantity_text.v)
        ELSE DEFAULT_QUANTITY

NumericQuantities == {NoQuantity, SentinelQuantity} \cup {Quantity(t) : t \in {0, 5, 30, -50}}
TextQuantities == {NoQuantity, SentinelQuantity, WordsOnly, CommaOnly}
                      \cup {QuantityText(t) : t \in {0, 25, 5000}}

ProductCandidates ==
    {[kind |-> "dict", name |-> "Acme Router X1", quantity_numeric |-> qn,
      quantity_text |-> qt, quantity |-> NoQuantity] :
          qn \in NumericQuantities, qt \in TextQuantities}
      \cup {[kind |-> "dict", name |-> n, quantity_numeric |-> NoQuantity,
             quantity_text |-> NoQuantity, quantity |-> q] :
                n \in ProductNames, q \in {NoQuantity, Quantity(70), QuantityText(120)}}
      \cup {[kind |-> "not_dict", name |-> "Pro", quantity_numeric |-> NoQuantity,
             quantity_text |-> NoQuantity, quantity |-> NoQuantity]}

ProductsInit ==
    /\ ChunkIdle /\ ScanIdle /\ SumIdle /\ ParseIdle /\ ExpIdle /\ PartyIdle /\ RiskIdle /\ GateIdle /\ MapIdle /\ RerunIdle /\ MainIdle /\ AiIdle /\ NumericIdle /\ AnalyticsIdle /\ RelIdle /\ HlIdle
    /\ ai_products \in SeqsUpTo(ProductCandidates, MaxProducts)
    /\ products = NotRun
    /\ product_error = NotRun
    /\ product_pc = "call"

\* lines 1036-1151: the products appended, in order
RECURSIVE ConvertedProducts(_, _)
ConvertedProducts(cands, i) ==
    IF i > Len(cands) THEN <<>>
    ELSE IF cands[i].kind = "dict" /\ IsValidProduct(cands[i].name)
      THEN <<[id |-> i, name |-> cands[i].name, quantity |-> ExtractQuantity(cands[i])]>>
               \o ConvertedProducts(cands, i + 1)
      ELSE ConvertedProducts(cands, i + 1)

\* the whole call
ConvertProducts ==
    /\ product_pc = "call"
    /\ IF ConvertedProducts(ai_products, 1) = <<>>
         THEN /\ product_pc' = "raised"
              /\ product_error' = Returned("ValueError: No valid products identified from AI response")
              /\ UNCHANGED products
         ELSE /\ product_pc' = "returned"
              /\ products' = Returned(ConvertedProducts(ai_products, 1))
              /\ UNCHANGED product_error
    /\ UNCHANGED <<ai_products, productFrame>>

ProductsNext == ConvertProducts

ProductsSpec == ProductsInit /\ [][ProductsNext]_vars

-----------------------------------------------------------------------------
(***************************************************************************)
(* perform_quality_checks (comprehensive_analysis.py:390-535)              *)
(*                                                                         *)
(* A ContractData is taken by what the quality checks and the strict       *)
(* validation read of it.  A name or title is taken by the facts the       *)
(* checks ask of it.                                                       *)
(***************************************************************************)

QUALITY_THRESHOLD == 70
PARTY_POINTS == 20
PRODUCT_POINTS == 15
FINANCIAL_POINTS == 15
TIMELINE_POINTS == 15
RISK_POINTS == 15
ANALYTICS_POINTS == 10
STRUCTURE_POINTS == 10

\* lines 406-407
quality_generic_names ==
    << <<"party", "a">>, <<"party", "b">>, <<"party", "1">>, <<"party", "2">>,
       <<"company", "a">>, <<"company", "b">>, <<"not", "specified">>,
       <<"contractor">>, <<"client">>, <<"supplier">>, <<"customer">> >>

\* lines 413-415
QUALITY_INDICATORS ==
    {"Inc", "LLC", "Ltd", "Corporation", "Company", "Limited", "Corp", "Incorporated",
     "International", "Holdings", "Group"}

\* any(generic in name.lower() for generic in generic_names)
PartyIsGeneric(name) ==
    \E p \in 1..Len(quality_generic_names) : HoldsPlaceholder(name, quality_generic_names[p])

\* not any(indicator in name for indicator in [...])
PartyLacksIndicator(name) ==
    ~\E i \in 1..Len(name) : \E ind \in QUALITY_INDICATORS : <<name[i], ind>> \in WordIndicators

\* the names of the products of a ContractData
GateProductNames == {"Acme Router X1", "as specified in Schedule A", "Schedule A Items", "X1"}

\* len(name)
ProductLen(name) ==
    CASE name = "as specified in Schedule A" -> 26
      [] name = "Schedule A Items" -> 16
      [] name = "X1" -> 2
      [] OTHER -> ProductNameFacts(name).len

\* lines 432-434: any(fragment in name.lower() for fragment in fragment_indicators)
HoldsQualityFragment(name) == name = "as specified in Schedule A"

\* lines 2546-2549: the list of the strict validation also has "as defined" and "schedule a"
HoldsStrictFragment(name) == name \in {"as specified in Schedule A", "Schedule A Items"}

\* the dates of the events of a ContractData: a date, or one of "Not specified", "N/A", "TBD"
IsDated(date) == date = "2024-01-01"

\* lines 2594-2600: a keyword of conditional_keywords is in event_name.lower()
IsConditional(event_name) == event_name = "Upon termination"

\* the lists of a list, one after the other
RECURSIVE Flatten(_)
Flatten(s) == IF s = <<>> THEN <<>> ELSE Head(s) \o Flatten(Tail(s))

\* the sum of f over the items of a list
SumOver(s, f(_)) == SumSeq([i \in 1..Len(s) |-> f(s[i])])

\* the issues of the items of a list, in order
IssuesOver(s, f(_)) == Flatten([i \in 1..Len(s) |-> f(s[i])])

If(cond, issue) == IF cond THEN <<issue>> ELSE <<>>

ScoreOutOfRange(score) == score < MIN_RISK_SCORE \/ score > MAX_RISK_SCORE

\* lines 395-419
PartyIssues(cd) ==
    If(Len(cd.parties) < MIN_PARTIES, "Insufficient parties identified (minimum 2 required)")
    \o IssuesOver(cd.parties, LAMBDA name :
           If(PartyIsGeneric(name), "Generic party name detected")
           \o If(NameLen(name) > 5 /\ PartyLacksIndicator(name),
                 "Party name may not be a proper company name"))
PartyScore(cd) ==
    PARTY_POINTS - (IF Len(cd.parties) < MIN_PARTIES THEN 10 ELSE 0)
      - SumOver(cd.parties, LAMBDA name :
            (IF PartyIsGeneric(name) THEN 5 ELSE 0)
            + (IF NameLen(name) > 5 /\ PartyLacksIndicator(name) THEN 2 ELSE 0))

\* lines 421-444
ProductIssues(cd) ==
    IF Len(cd.products) = 0 THEN <<"No products/services identified">>
    ELSE IssuesOver(cd.products, LAMBDA p :
             If(HoldsQualityFragment(p.name), "Product name appears to be text fragment")
             \o If(p.quantity <= 0, "Invalid quantity for product"))
ProductScore(cd) ==
    IF Len(cd.products) = 0 THEN 0
    ELSE PRODUCT_POINTS - SumOver(cd.products, LAMBDA p :
             (IF HoldsQualityFragment(p.name) THEN 3 ELSE 0) + (IF p.quantity <= 0 THEN 2 ELSE 0))

\* lines 446-460
FinancialIssues(cd) ==
    If(cd.financialTerms.generic_payment_terms, "Generic or missing payment terms")
    \o If(cd.financialTerms.totalValue = 0, "No contract value identified")
FinancialScore(cd) ==
    FINANCIAL_POINTS - (IF cd.financialTerms.generic_payment_terms THEN 5 ELSE 0)
      - (IF cd.financialTerms.totalValue = 0 THEN 5 ELSE 0)

\* lines 462-476
TimelineIssues(cd) ==
    If(Len(cd.timeline) < 3, "Insufficient timeline events (minimum 3 recommended)")
    \o IssuesOver(cd.timeline, LAMBDA e : If(~IsDated(e.date), "Generic or missing date for event"))
TimelineScore(cd) ==
    TIMELINE_POINTS - (IF Len(cd.timeline) < 3 THEN 5 ELSE 0)
      - SumOver(cd.timeline, LAMBDA e : IF ~IsDated(e.date) THEN 2 ELSE 0)

\* lines 478-497
RiskIssues(cd) ==
    If(Len(cd.risks) < 3, "Insufficient risk analysis (minimum 3 risks recommended)")
    \o IssuesOver(cd.risks, LAMBDA r :
           If(ScoreOutOfRange(r.riskScore), "Invalid risk score")
           \o If(r.title_len < 10, "Risk title too short or missing"))
RiskScore(cd) ==
    RISK_POINTS - (IF Len(cd.risks) < 3 THEN 5 ELSE 0)
      - SumOver(cd.risks, LAMBDA r :
            (IF ScoreOutOfRange(r.riskScore) THEN 2 ELSE 0) + (IF r.title_len < 10 THEN 2 ELSE 0))

\* lines 499-515
AnalyticsIssues(cd) ==
    If(ScoreOutOfRange(cd.analytics.overallRiskScore), "Invalid overall risk score")
    \o If(cd.analytics.total_risks # Len(cd.risks), "Risk distribution doesn't match actual risk count")
AnalyticsScore(cd) ==
    ANALYTICS_POINTS - (IF ScoreOutOfRange(cd.analytics.overallRiskScore) THEN 5 ELSE 0)
      - (IF cd.analytics.total_risks # Len(cd.risks) THEN 3 ELSE 0)

\* lines 517-531
StructureIssues(cd) ==
    If(cd.documentStructure.sections < 3, "Insufficient document sections identified")
    \o If(cd.documentStructure.totalPages = 0, "Total pages not identified")
StructureScore(cd) ==
    STRUCTURE_POINTS - (IF cd.documentStructure.sections < 3 THEN 5 ELSE 0)
      - (IF cd.documentStructure.totalPages = 0 THEN 3 ELSE 0)

\* line 534: max(0, min(100, quality_score))
BoundScore(score) == Max(0, Min(100, score))

\* the whole function: quality_score and quality_issues
perform_quality_checks(cd) ==
    [quality_score |->
         BoundScore(100 - Max(0, PARTY_POINTS - PartyScore(cd))
                        - Max(0, PRODUCT_POINTS - ProductScore(cd))
                        - Max(0, FINANCIAL_POINTS - FinancialScore(cd))
                        - Max(0, TIMELINE_POINTS - TimelineScore(cd))
                        - Max(0, RISK_POINTS - RiskScore(cd))
                        - Max(0, ANALYTICS_POINTS - AnalyticsScore(cd))
                        - Max(0, STRUCTURE_POINTS - StructureScore(cd))),
     quality_issues |->
         PartyIssues(cd) \o ProductIssues(cd) \o FinancialIssues(cd) \o TimelineIssues(cd)
             \o RiskIssues(cd) \o AnalyticsIssues(cd) \o StructureIssues(cd)]

-----------------------------------------------------------------------------
(***************************************************************************)
(* validate_contract_data_strict (comprehensive_analysis.py:2505-2627)     *)
(***************************************************************************)

\* lines 2519-2523
strict_generic_indicators ==
    quality_generic_names
        \o << <<"first", "party">>, <<"second", "party">>, <<"the", "manufacturer">>,
              <<"the", "customer">> >>

\* lines 2532-2534
LEGAL_INDICATORS ==
    QUALITY_INDICATORS \cup {"Enterprises", "INC.", "LIMITED", "HOLDING", "INTERNATIONAL"}

Critical(what) == [severity |-> "CRITICAL", what |-> what]
Warning(what) == [severity |-> "WARNING", what |-> what]

\* lines 2511-2536
StrictPartyErrors(cd) ==
    IF Len(cd.parties) < MIN_PARTIES
      THEN <<Critical("Insufficient parties identified (minimum 2 required)")>>
      ELSE IssuesOver(cd.parties, LAMBDA name :
               If(\E p \in 1..Len(strict_generic_indicators) :
                      HoldsPlaceholder(name, strict_generic_indicators[p]),
                  Critical("Generic party name detected"))
               \o If(NameLen(name) < 5, Critical("Party name too short"))
               \o If(~\E i \in 1..Len(name) : \E ind \in LEGAL_INDICATORS :
                          <<name[i], ind>> \in WordIndicators,
                     Warning("Party may not be a proper legal entity")))

\* lines 2538-2560
StrictProductErrors(cd) ==
    IF Len(cd.products) = 0 THEN <<Critical("No products/services identified")>>
    ELSE IssuesOver(cd.products, LAMBDA p :
             If(HoldsStrictFragment(p.name), Critical("Product name is text fragment, not actual product"))
             \o If(ProductLen(p.name) < 3, Critical("Product name too short"))
             \o If(p.quantity <= 0, Critical("Invalid quantity for product")))

\* lines 2562-2566
StrictFinancialErrors(cd) ==
    If(cd.financialTerms.generic_payment_terms, Critical("Generic or missing payment terms"))

\* lines 2568-2580
StrictRiskErrors(cd) ==
    IF Len(cd.risks) < 3
      THEN <<Critical("Insufficient risk analysis (minimum 3 risks required)")>>
      ELSE IssuesOver(cd.risks, LAMBDA r :
               If(ScoreOutOfRange(r.riskScore), Critical("Invalid risk score"))
               \o If(r.title_len < 10, Critical("Risk title too short or missing")))

\* lines 2582-2610
StrictTimelineErrors(cd) ==
    IF Len(cd.timeline) < 3
      THEN <<Critical("Insufficient timeline events (minimum 3 required)")>>
      ELSE IssuesOver(cd.timeline, LAMBDA e :
               If(~IsDated(e.date) /\ ~IsConditional(e.event), Warning("Event missing specific date")))
           \o If(Cardinality({i \in 1..Len(cd.timeline) : IsDated(cd.timeline[i].date)}) < 2,
                 Critical("Insufficient events with specific dates (minimum 2 required)"))

\* the list validation_errors at line 2612
StrictErrors(cd) ==
    StrictPartyErrors(cd) \o StrictProductErrors(cd) \o StrictFinancialErrors(cd)
        \o StrictRiskErrors(cd) \o StrictTimelineErrors(cd)

critical_errors(errors) == SelectSeq(errors, LAMBDA err : err.severity = "CRITICAL")
warning_errors(errors) == SelectSeq(errors, LAMBDA err : err.severity = "WARNING")

\* lines 2618 and 2623: the first 10 critical errors, the first 5 warnings
SHOWN_CRITICAL == 10
SHOWN_WARNINGS == 5
FirstOf(s, n) == SubSeq(s, 1, Min(n, Len(s)))

-----------------------------------------------------------------------------
(***************************************************************************)
(* extract_comprehensive_data from the parsed ContractData on              *)
(* (comprehensive_analysis.py:298-331) and the main block (2629-2708)      *)
(***************************************************************************)

ManyParties == 12

GatePartyLists ==
    { <<>>, << <<"Acme", "Inc">> >>, << <<"Jane", "Doe">> >>,
      << <<"Acme", "Inc">>, <<"Acme", "Inc">> >>, << <<"Acme", "Inc">>, <<"Jane", "Doe">> >>,
      << <<"Party", "A">>, <<"Party", "A">> >>, << <<"Acme", "Inc">>, <<"Acme">> >>,
      [i \in 1..ManyParties |-> <<"Party", "A">>] }

GateProductLists ==
    {<<>>} \cup {<<[name |-> n, quantity |-> 5]>> : n \in GateProductNames}
        \cup {<<[name |-> "Acme Router X1", quantity |-> 0]>>}

GateFinancialTerms ==
    {[generic_payment_terms |-> FALSE, totalValue |-> 1000],
     [generic_payment_terms |-> TRUE, totalValue |-> 0]}

Dated == [date |-> "2024-01-01", event |-> "Delivery"]
Undated == [date |-> "TBD", event |-> "Delivery"]

GateTimelines ==
    { <<>>, <<Undated>>, <<Dated, Dated, Dated>>, <<Dated, Dated, Undated>>,
      <<Undated, Undated, Undated>>,
      <<Dated, Dated, [date |-> "TBD", event |-> "Upon termination"]>> }

GoodRisk == [riskScore |-> 55, title_len |-> 20]
HighRisk == [riskScore |-> 150, title_len |-> 20]
ShortRisk == [riskScore |-> 55, title_len |-> 4]

GateRiskLists ==
    { <<>>, <<HighRisk>>, <<GoodRisk, GoodRisk, GoodRisk>>, <<GoodRisk, GoodRisk, HighRisk>>,
      <<GoodRisk, GoodRisk, ShortRisk>>, <<HighRisk, ShortRisk>>, <<HighRisk, HighRisk, HighRisk>> }

\* overallRiskScore, and by how much the riskDistribution misses the number of risks
GateAnalytics == {[overallRiskScore |-> 55, off_by |-> 0], [overallRiskScore |-> 0, off_by |-> 1]}

GateStructures == {[sections |-> 3, totalPages |-> 5], [sections |-> 0, totalPages |-> 0]}

GateContracts ==
    {[parties |-> p, products |-> pr, financialTerms |-> f, timeline |-> t, risks |-> r,
      analytics |-> [overallRiskScore |-> a.overallRiskScore, total_risks |-> Len(r) + a.off_by],
      documentStructure |-> d] :
        p \in GatePartyLists, pr \in GateProductLists, f \in GateFinancialTerms,
        t \in GateTimelines, r \in GateRiskLists, a \in GateAnalytics, d \in GateStructures}

GateInit ==
    /\ ChunkIdle /\ ScanIdle /\ SumIdle /\ ParseIdle /\ ExpIdle /\ PartyIdle /\ RiskIdle /\ ProductIdle /\ MapIdle /\ RerunIdle /\ MainIdle /\ AiIdle /\ NumericIdle /\ AnalyticsIdle /\ RelIdle /\ HlIdle
    /\ ai_payload = NotRun
    /\ contract_data \in {Returned(cd) : cd \in GateContracts}
    /\ quality = NotRun
    /\ validation_errors = NotRun
    /\ printed = <<>>
    /\ raised = NotRun
    /\ written = NotRun
    /\ gate_pc = "parsed"

\* a number or a text put into a message
NumArg(n) == [k |-> "num", v |-> n]
TextArg(t) == [k |-> "text", v |-> t]

\* line 313: f"Contract analysis failed quality validation (score: {quality_score}/100)"
QualityFailure(score) ==
    [template |-> "Contract analysis failed quality validation (score: {}/100)",
     args |-> <<NumArg(score)>>]

\* line 323
StrictFailure ==
    [template |-> "Contract analysis failed strict validation - insufficient data quality",
     args |-> <<>>]

\* line 331: f"Failed to parse AI response: {str(e)}"
ParseFailure(e) == [template |-> "Failed to parse AI response: " \o e.template, args |-> e.args]

\* mutant: a score of exactly 70 is rejected too
BelowThreshold_Inclusive(score) == score <= QUALITY_THRESHOLD

\* line 308
BelowThreshold(score) == score < QUALITY_THRESHOLD

\* lines 303-305
ExtractQuality ==
    /\ gate_pc = "parsed"
    /\ quality' = Returned(perform_quality_checks(contract_data[1]))
    /\ gate_pc' = "scored"
    /\ UNCHANGED <<ai_payload, contract_data, validation_errors, printed, raised, written, gateFrame>>

\* lines 307-313 and 327-331
ExtractGate ==
    /\ gate_pc = "scored"
    /\ IF BelowThreshold(quality[1].quality_score)
         THEN /\ printed' = printed \o quality[1].quality_issues
              /\ raised' = Returned(ParseFailure(QualityFailure(quality[1].quality_score)))
              /\ gate_pc' = "raised"
         ELSE /\ gate_pc' = "validate"
              /\ UNCHANGED <<printed, raised>>
    /\ UNCHANGED <<ai_payload, contract_data, quality, validation_errors, written, gateFrame>>

\* lines 319-331, with validate_contract_data_strict
ExtractValidate ==
    /\ gate_pc = "validate"
    /\ LET errors == StrictErrors(contract_data[1])
           what(s) == [i \in 1..Len(s) |-> s[i].what]
       IN  /\ validation_errors' = Returned(errors)
           /\ IF critical_errors(errors) # <<>>
                THEN /\ printed' = printed \o what(FirstOf(critical_errors(errors), SHOWN_CRITICAL))
                     /\ raised' = Returned(ParseFailure(StrictFailure))
                     /\ gate_pc' = "raised"
                ELSE /\ printed' = printed \o what(FirstOf(warning_errors(errors), SHOWN_WARNINGS))
                     /\ gate_pc' = "returned"
                     /\ UNCHANGED raised
    /\ UNCHANGED <<ai_payload, contract_data, quality, written, gateFrame>>

\* lines 2646-2653 and 2672-2691
MainWrite ==
    /\ gate_pc \in {"returned", "raised"}
    /\ IF gate_pc = "returned"
         THEN /\ written' = Returned([file |-> "contract_analysis.json", content |-> contract_data[1]])
              /\ gate_pc' = "done"
         ELSE /\ written' = Returned([file |-> "contract_analysis_error.json",
                                      content |-> [error |-> TRUE,
                                                   message |-> "Contract analysis failed quality validation",
                                                   details |-> raised[1]]])
              /\ gate_pc' = "exit"
    /\ UNCHANGED <<ai_payload, contract_data, quality, validation_errors, printed, raised, gateFrame>>

GateNext == ExtractQuality \/ ExtractGate \/ ExtractValidate \/ MainWrite

GateSpec == GateInit /\ [][GateNext]_vars

-----------------------------------------------------------------------------
(***************************************************************************)
(* extract_comprehensive_data from the payload on: the dict literal of     *)
(* parse_ai_json_response (comprehensive_analysis.py:626-667) calls the    *)
(* converters in the order parties, timeline, risks, keyTerms, products    *)
(***************************************************************************)

\* ---- the payloads.  A date or term that was null in the AI response is the
\* sentinel "Not specified" here (line 577), a missing one is ""
TitledRisk(sc) == [kind |-> "dict", has_title |-> TRUE, risk_score |-> sc]
Party(name) == [kind |-> "dict", legal_name |-> name]
Product(name, q) ==
    [kind |-> "dict", name |-> name, quantity_numeric |-> NoQuantity,
     quantity_text |-> NoQuantity, quantity |-> q]
Event(date) == [kind |-> "dict", date |-> date, event |-> "Delivery"]
Term(term) == [kind |-> "dict", term |-> term]

ExtractParties ==
    { <<>>, <<Party(<<"Acme", "Inc">>)>>,
      <<Party(<<"Acme", "Inc">>), Party(<<"Jane", "Doe">>)>>,
      <<Party(<<"Acme", "Inc">>), Party(<<"Party", "A">>), Party(<<"Acme", "Company">>)>>,
      <<Party(<<"Acme", "Inc">>), Party(<<"Jane", "Doe">>),
        [kind |-> "dict_numeric_name", legal_name |-> <<>>]>> }

ExtractTimelines ==
    { <<>>, <<Event("")>>, <<Event("2024-01-01")>>,
      <<Event("2024-01-01"), Event("2024-01-01"), Event("2024-01-01")>>,
      <<Event("2024-01-01"), Event("2024-01-01"), Event("Not specified")>>,
      <<Event("Not specified"), Event("Not specified"), Event("Not specified")>> }

ExtractRisks ==
    { <<>>, <<TitledRisk(Score(550))>>,
      <<TitledRisk(Score(550)), TitledRisk(Score(550)), TitledRisk(Score(1500))>>,
      <<TitledRisk(Score(550)), TitledRisk(Score(550)), TitledRisk(NoScore)>>,
      <<[kind |-> "dict", has_title |-> FALSE, risk_score |-> Score(250)]>> }

ExtractKeyTerms == { <<>>, <<Term("")>>, <<Term("Force Majeure")>>, <<Term("Not specified")>> }

ExtractProducts ==
    { <<>>, <<Product("widget pro", Quantity(70))>>, <<Product("Acme Router X1", Quantity(70))>>,
      <<Product("Acme Router X1", NoQuantity), Product("Vitamin C Supplement", Quantity(0))>> }

ExtractPayloads ==
    {[parties |-> p, timeline_events |-> t, risk_factors |-> r, key_terms |-> k,
      products_services |-> pr] :
        p \in ExtractParties, t \in ExtractTimelines, r \in ExtractRisks, k \in ExtractKeyTerms,
        pr \in ExtractProducts}

ExtractInit ==
    /\ ChunkIdle /\ ScanIdle /\ SumIdle /\ ParseIdle /\ ExpIdle /\ PartyIdle /\ RiskIdle /\ ProductIdle /\ MapIdle /\ RerunIdle /\ MainIdle /\ AiIdle /\ NumericIdle /\ AnalyticsIdle /\ RelIdle /\ HlIdle
    /\ ai_payload \in {Returned(p) : p \in ExtractPayloads}
    /\ contract_data = NotRun
    /\ quality = NotRun
    /\ validation_errors = NotRun
    /\ printed = <<>>
    /\ raised = NotRun
    /\ written = NotRun
    /\ gate_pc = "call"

\* convert_ai_timeline, lines 852-853 and 914-926: the events that are dicts with a truthy date
ConvertedTimeline(cands) ==
    LET kept == SelectSeq(cands, LAMBDA e : e.kind = "dict" /\ e.date # "")
    IN  [i \in 1..Len(kept) |-> [date |-> kept[i].date, event |-> kept[i].event]]

\* convert_ai_key_terms, lines 1015-1025: the terms that are dicts with a truthy term
ConvertedKeyTerms(cands) ==
    LET kept == SelectSeq(cands, LAMBDA t : t.kind = "dict" /\ t.term # "")
    IN  [i \in 1..Len(kept) |-> [term |-> kept[i].term]]

\* the messages of the converters (lines 725, 802, 930, 954, 1007, 1029, 1155)
StripError == [template |-> "'int' object has no attribute 'strip'", args |-> <<>>]
PartiesError ==
    [template |-> "Insufficient parties identified from AI response - minimum 2 required",
     args |-> <<>>]
TimelineError == [template |-> "No timeline events identified from AI response", args |-> <<>>]
RiskScoreError ==
    [template |-> "AI must provide valid risk scores (20-95) for all risks. Missing score for: {}",
     args |-> <<TextArg("Unlimited liability clause")>>]
RisksError == [template |-> "No risks identified from AI response", args |-> <<>>]
KeyTermsError == [template |-> "No key terms identified from AI response", args |-> <<>>]
ProductsError == [template |-> "No valid products identified from AI response", args |-> <<>>]

\* the first exception of the dict literal, lines 626-645, or NotRun
ConverterError(payload) ==
    IF StripRaises(payload.parties) THEN Returned(StripError)
    ELSE IF TooFewParties(AcceptedParties(payload.parties, 1)) THEN Returned(PartiesError)
    ELSE IF ConvertedTimeline(payload.timeline_events) = <<>> THEN Returned(TimelineError)
    ELSE IF \E i \in 1..Len(payload.risk_factors) :
                IsRiskItem(payload.risk_factors[i]) /\ ~ScoreAccepted(payload.risk_factors[i].risk_score)
      THEN Returned(RiskScoreError)
    ELSE IF ConvertedRisks(payload.risk_factors, 1) = <<>> THEN Returned(RisksError)
    ELSE IF ConvertedKeyTerms(payload.key_terms) = <<>> THEN Returned(KeyTermsError)
    ELSE IF ConvertedProducts(payload.products_services, 1) = <<>> THEN Returned(ProductsError)
    ELSE NotRun

\* the dict of lines 626-661 as the validations read it; the titles of the
\* payloads have 26 characters; financialTerms, analytics and
\* documentStructure come from functions that are not modelled
Reconciled(payload, f, a, d) ==
    LET ps == AcceptedParties(payload.parties, 1)
        rs == ConvertedRisks(payload.risk_factors, 1)
        prs == ConvertedProducts(payload.products_services, 1)
    IN  [parties |-> [i \in 1..Len(ps) |-> ps[i].legalName],
         products |-> [i \in 1..Len(prs) |-> [name |-> prs[i].name, quantity |-> prs[i].quantity]],
         financialTerms |-> f,
         timeline |-> ConvertedTimeline(payload.timeline_events),
         risks |-> [i \in 1..Len(rs) |-> [riskScore |-> rs[i].riskScore, title_len |-> 26]],
         keyTerms |-> ConvertedKeyTerms(payload.key_terms),
         analytics |-> [overallRiskScore |-> a.overallRiskScore, total_risks |-> Len(rs) + a.off_by],
         documentStructure |-> d]

\* line 300, with lines 327-331 when the parser raises
ExtractParse ==
    /\ gate_pc = "call"
    /\ IF ConverterError(ai_payload[1]) # NotRun
         THEN /\ raised' = Returned(ParseFailure(ConverterError(ai_payload[1])[1]))
              /\ gate_pc' = "raised"
              /\ UNCHANGED contract_data
         ELSE /\ \E f \in GateFinancialTerms, a \in GateAnalytics, d \in GateStructures :
                     contract_data' = Returned(Reconciled(ai_payload[1], f, a, d))
              /\ gate_pc' = "parsed"
              /\ UNCHANGED raised
    /\ UNCHANGED <<ai_payload, quality, validation_errors, printed, written, gateFrame>>

ExtractNext == ExtractParse \/ GateNext

ExtractSpec == ExtractInit /\ [][ExtractNext]_vars

-----------------------------------------------------------------------------
(***************************************************************************)
(* extract_clause_risk_map (comprehensive_analysis.py:1828-1921) and       *)
(* extract_clause_risk_map_enhanced (2317-2372)                            *)
(*                                                                         *)
(* The mapper reads of its arguments: whether ai_response holds a fenced   *)
(* json block that json.loads accepts, the clause_risk_mapping and the     *)
(* risk_factors of that block, the matches of the CLAUSE RISK MAPPING and  *)
(* DETAILED CLAUSE ANALYSIS sections of ai_response, which section names   *)
(* occur in full_text, and total_pages.                                    *)
(***************************************************************************)

MaxMapEntries == 8
MaxMapRisks == 6
MaxPages == 3

TOP_RISKS == 5
MIN_CLAUSE_LENGTH == 3
MIN_TEXT_CLAUSE_LENGTH == 5

\* line 2326
sections == <<"Introduction", "Definitions", "Terms and Conditions", "Obligations",
              "Payment Terms", "Termination", "Miscellaneous">>

\* line 2331
HIGH_RISK_SECTIONS == {"Obligations", "Payment Terms", "Termination"}

\* len(clause_text.strip())
ClauseLen(clause) ==
    CASE clause = "" -> 0
      [] clause = "IP" -> 2
      [] clause = "Fees" -> 4
      [] clause = "Indemnification" -> 15
      [] clause = "Termination" -> 11

\* a clause: "text", "Risk Area n: text" or "Section: text"
Clause(prefix, n, clause) == [prefix |-> prefix, n |-> n, clause |-> clause]

Position(top, height) == [top |-> top, left |-> 5, width |-> 90, height |-> height]

\* int(page_num) raises
PageRaises(page) == page.k \in {"sentinel", "prose", "empty"}

\* int(page_num); a missing page is 1 (line 1846)
PageOf(page) == IF page.k = "missing" THEN 1 ELSE page.v

\* lines 1843-1861: the entries appended before the loop ends or an exception
\* leaves it; i counts from 0
RECURSIVE JsonMapping(_, _)
JsonMapping(clause_risks, i) ==
    IF i >= Len(clause_risks) THEN <<>>
    ELSE LET clause_risk == clause_risks[i + 1]
         IN  IF clause_risk.clause # "" /\ ClauseLen(clause_risk.clause) > MIN_CLAUSE_LENGTH
               THEN IF PageRaises(clause_risk.page) THEN <<>>
                    ELSE <<[clause |-> Clause("", 0, clause_risk.clause),
                            riskLevel |-> "medium",
                            page |-> PageOf(clause_risk.page),
                            position |-> Position(10 + (i * 15), 8)]>>
                             \o JsonMapping(clause_risks, i + 1)
               ELSE JsonMapping(clause_risks, i + 1)

\* lines 1866-1887: the matches of the CLAUSE RISK MAPPING section
TextMapping(matches) ==
    LET kept == SelectSeq(matches, LAMBDA m : ClauseLen(m.clause) > MIN_TEXT_CLAUSE_LENGTH)
    IN  [j \in 1..Len(kept) |->
            [clause |-> Clause("", 0, kept[j].clause), riskLevel |-> "medium",
             page |-> kept[j].page, position |-> Position(10, 8)]]

\* lines 1900-1917: the first 5 risks, those with a title
RECURSIVE RiskMapping(_, _, _)
RiskMapping(risk_factors, i, total_pages) ==
    IF i >= Min(TOP_RISKS, Len(risk_factors)) THEN <<>>
    ELSE IF risk_factors[i + 1].title # ""
      THEN <<[clause |-> Clause("Risk Area", i + 1, risk_factors[i + 1].title),
              riskLevel |-> "medium",
              page |-> Min(i + 1, total_pages),
              position |-> Position(10 + (i * 15), 8)]>>
               \o RiskMapping(risk_factors, i + 1, total_pages)
      ELSE RiskMapping(risk_factors, i + 1, total_pages)

\* lines 2328-2343: the sections whose name occurs in full_text; i counts from 0
RECURSIVE SectionMapping(_, _, _)
SectionMapping(headings, i, total_pages) ==
    IF i >= Len(sections) THEN <<>>
    ELSE IF sections[i + 1] \in headings
      THEN <<[clause |-> Clause("Section", 0, sections[i + 1]),
              riskLevel |-> IF sections[i + 1] \in HIGH_RISK_SECTIONS THEN "high" ELSE "medium",
              page |-> Min(i + 1, total_pages),
              position |-> Position(10 + (i * 12), 8)]>>
               \o SectionMapping(headings, i + 1, total_pages)
      ELSE SectionMapping(headings, i + 1, total_pages)

\* lines 2355-2370: the matches of the DETAILED CLAUSE ANALYSIS section, each
\* appended unless a clause of that text is in the list
RECURSIVE Enhanced(_, _)
Enhanced(mapping, matches) ==
    IF matches = <<>> THEN mapping
    ELSE LET m == Head(matches)
         IN  IF \E j \in 1..Len(mapping) : mapping[j].clause = Clause("", 0, m.clause)
               THEN Enhanced(mapping, Tail(matches))
               ELSE Enhanced(Append(mapping,
                                    [clause |-> Clause("", 0, m.clause), riskLevel |-> "medium",
                                     page |-> m.page,
                                     position |-> Position(15 + Len(mapping) * 12, 6)]),
                             Tail(matches))

\* ---- the inputs
MapEntry(clause, page) == [clause |-> clause, page |-> page]

ClauseRiskMappings ==
    {Repeat(MapEntry("Indemnification", Num(1)), n) : n \in 0..MaxMapEntries}
        \cup { <<MapEntry("IP", Num(1))>>, <<MapEntry("", Num(1))>>,
               <<MapEntry("IP", Num(1)), MapEntry("Fees", Missing)>>,
               <<MapEntry("Indemnification", Num(0))>>,
               <<MapEntry("Indemnification", NumStr(2)), MapEntry("Fees", Num(MaxPages + 1))>>,
               <<MapEntry("Indemnification", Sentinel)>>,
               <<MapEntry("Termination", Num(2)), MapEntry("Fees", Sentinel),
                 MapEntry("Indemnification", Num(1))>> }

TextMatches ==
    { <<>>, <<[clause |-> "Fees", page |-> 1]>>,
      <<[clause |-> "Indemnification", page |-> 0], [clause |-> "Termination", page |-> 2]>> }

RiskFactors ==
    {Repeat([title |-> "Indemnification"], n) : n \in 0..MaxMapRisks}
        \cup { <<[title |-> ""]>>, <<[title |-> ""], [title |-> "Termination"]>> }

Headings == { {}, {"Introduction"}, {"Termination"}, {"Definitions", "Miscellaneous"},
              {sections[i] : i \in 1..Len(sections)} }

DetailedMatches ==
    { <<>>, <<[clause |-> "Termination", page |-> 2]>>,
      <<[clause |-> "Indemnification", page |-> 0], [clause |-> "Fees", page |-> 1]>> }

MapInputs ==
    {[json_block |-> "ok", clause_risk_mapping |-> m, risk_factors |-> r, text_matches |-> <<>>,
      headings |-> h, detailed_matches |-> d, total_pages |-> n] :
        m \in ClauseRiskMappings, r \in RiskFactors, h \in Headings, d \in DetailedMatches,
        n \in 1..MaxPages}
      \cup
    {[json_block |-> b, clause_risk_mapping |-> <<>>, risk_factors |-> <<>>, text_matches |-> t,
      headings |-> h, detailed_matches |-> d, total_pages |-> n] :
        b \in {"none", "invalid"}, t \in TextMatches, h \in Headings, d \in DetailedMatches,
        n \in 1..MaxPages}
      \cup
    {[json_block |-> "ok", clause_risk_mapping |-> m, risk_factors |-> r, text_matches |-> t,
      headings |-> {"Termination"}, detailed_matches |-> <<>>, total_pages |-> MaxPages] :
        m \in {<<>>, <<MapEntry("Indemnification", Num(1))>>},
        r \in {<<>>, <<[title |-> "Indemnification"]>>}, t \in TextMatches}

MapInit ==
    /\ ChunkIdle /\ ScanIdle /\ SumIdle /\ ParseIdle /\ ExpIdle /\ PartyIdle /\ RiskIdle /\ ProductIdle /\ GateIdle /\ RerunIdle /\ MainIdle /\ AiIdle /\ NumericIdle /\ AnalyticsIdle /\ RelIdle /\ HlIdle
    /\ map_input \in {Returned(x) : x \in MapInputs}
    /\ base_mapping = <<>>
    /\ map_pc = "base"

\* extract_clause_risk_map, lines 1828-1921
extract_clause_risk_map(input) ==
    LET from_json == IF input.json_block = "ok" THEN JsonMapping(input.clause_risk_mapping, 0)
                     ELSE <<>>
        from_text == IF from_json = <<>> THEN TextMapping(input.text_matches) ELSE from_json
    IN  IF from_text # <<>> THEN from_text
        ELSE IF input.json_block = "ok"
          THEN RiskMapping(input.risk_factors, 0, input.total_pages)
        ELSE <<>>

\* line 2320
MapBase ==
    /\ map_pc = "base"
    /\ base_mapping' = extract_clause_risk_map(map_input[1])
    /\ map_pc' = "sections"
    /\ UNCHANGED <<map_input, mapFrame>>

\* lines 2323-2346
MapSections ==
    /\ map_pc = "sections"
    /\ base_mapping' = IF base_mapping = <<>>
                         THEN SectionMapping(map_input[1].headings, 0, map_input[1].total_pages)
                         ELSE base_mapping
    /\ map_pc' = "enhance"
    /\ UNCHANGED <<map_input, mapFrame>>

\* lines 2348-2372
MapEnhance ==
    /\ map_pc = "enhance"
    /\ base_mapping' = Enhanced(base_mapping, map_input[1].detailed_matches)
    /\ map_pc' = "done"
    /\ UNCHANGED <<map_input, mapFrame>>

MapNext == MapBase \/ MapSections \/ MapEnhance

MapSpec == MapInit /\ [][MapNext]_vars

-----------------------------------------------------------------------------
(***************************************************************************)
(* parse_ai_json_response called twice on the same ai_response, full_text  *)
(* and pdf_path (comprehensive_analysis.py:537-667)                        *)
(*                                                                         *)
(* The model keeps the fields of the ContractData that are computed from a *)
(* date: effectiveDate, expirationDate, the timeline, the two timeline     *)
(* counts of the analytics and metadata.analysisDate.  A date is its day   *)
(* number; the clock is the day datetime.now() falls on, at some time      *)
(* after midnight, so midnight of day d is before now exactly when         *)
(* d <= clock.                                                             *)
(***************************************************************************)

DEFAULT_NOTICE_DAYS == 30

Bool(b) == [k |-> "bool", v |-> IF b THEN 1 ELSE 0]

\* notice_required of an event: absent, or a text that holds "yes" and names no period
NoticeAbsent == Missing
NoticeYes == [k |-> "yes", v |-> DEFAULT_NOTICE_DAYS]

TimedEvent(date, completed, priority, notice) ==
    [date |-> date, completed |-> completed, priority |-> priority, notice_required |-> notice]

\* lines 854-877: noticeRequired and noticeDeadline of an event that gives no notice_deadline
NoticeDeadline(event) ==
    IF event.notice_required.k = "yes"
      THEN IF ParsesAsDate(event.date)
             THEN DateStr(event.date.v - event.notice_required.v)
             ELSE ProseStr                     \* "30 days before event"
      ELSE Missing

\* lines 879-889: completed of an event, read on day today
Completed(event, today) ==
    IF event.completed # Missing THEN event.completed
    ELSE Bool(ParsesAsDate(event.date) /\ event.date.v <= today)

\* lines 852-927: the events of convert_ai_timeline, for events that are dicts
convert_ai_timeline(ai_timeline, today) ==
    LET kept == SelectSeq(ai_timeline, LAMBDA event : Truthy(event.date))
    IN  [i \in 1..Len(kept) |->
            [date |-> kept[i].date,
             completed |-> Completed(kept[i], today),
             priority |-> kept[i].priority,
             noticeRequired |-> kept[i].notice_required.k = "yes",
             noticeDeadline |-> NoticeDeadline(kept[i])]]

CountOf(s, Test(_)) == Len(SelectSeq(s, Test))

\* lines 2426-2442: completionRate and criticalDeadlines; the timeline is
\* converted again inside calculate_analytics_enhanced (line 2388)
TimelineAnalytics(ai_timeline, today) ==
    LET timeline == convert_ai_timeline(ai_timeline, today)
        IsDone(event) == event.completed \notin {Bool(FALSE), Num(0), EmptyStr}
        IsCritical(event) ==
            /\ event.priority \in {"high", "critical"}
            /\ ~IsDone(event)
            /\ ParsesAsDate(event.date)
            /\ event.date.v > today
    IN  [completionRate |-> (CountOf(timeline, IsDone) * 100) \div Max(Len(timeline), 1),
         criticalDeadlines |-> CountOf(timeline, IsCritical)]

\* lines 626-661, the fields computed from a date
TimedContractData(input, today) ==
    [effectiveDate |-> IF input.basics.effective_date = Missing
                         THEN DateStr(today)                    \* line 630
                         ELSE input.basics.effective_date,
     expirationDate |-> LET e == CalculatedExpiration(input.basics)
                        IN  IF Truthy(e) THEN e ELSE DateStr(today + DAYS_PER_YEAR),   \* line 631
     timeline |-> convert_ai_timeline(input.timeline, today),
     analytics |-> TimelineAnalytics(input.timeline, today),
     analysisDate |-> today]                                    \* line 651

RerunBasics ==
    [expiration_date : {Missing, Sentinel, DateStr(1)},
     effective_date : {Missing, DateStr(0)},
     contract_term_years : {Missing, Num(1)}]

RerunEvents ==
    {TimedEvent(date, completed, priority, notice) :
        date \in {DateStr(d) : d \in 0..MaxDay} \cup {ProseStr},
        completed \in {Missing, Bool(TRUE), Bool(FALSE)},
        priority \in {"high", "medium"},
        notice \in {NoticeAbsent, NoticeYes}}

\* a timeline of one event, or of one event after a dated, flagged one
RerunTimelines ==
    {<<e>> : e \in RerunEvents}
        \cup {<<TimedEvent(DateStr(0), Bool(TRUE), "high", NoticeYes), e>> : e \in RerunEvents}

RerunInit ==
    /\ ChunkIdle /\ ScanIdle /\ SumIdle /\ ParseIdle /\ MainIdle /\ AiIdle /\ NumericIdle /\ AnalyticsIdle /\ RelIdle /\ HlIdle
    /\ ExpIdle /\ PartyIdle /\ RiskIdle /\ ProductIdle /\ GateIdle /\ MapIdle
    /\ rerun_input \in [basics : RerunBasics, timeline : RerunTimelines]
    /\ clock \in 0..MaxDay
    /\ first_data = NotRun
    /\ second_data = NotRun
    /\ rerun_pc = "first"

\* the first call returns
RerunFirst ==
    /\ rerun_pc = "first"
    /\ first_data' = Returned(TimedContractData(rerun_input, clock))
    /\ rerun_pc' = "between"
    /\ UNCHANGED <<rerun_input, clock, second_data, rerunFrame>>

\* time passes between the two calls
RerunWait ==
    /\ rerun_pc = "between"
    /\ clock < MaxDay
    /\ clock' = clock + 1
    /\ UNCHANGED <<rerun_input, first_data, second_data, rerun_pc, rerunFrame>>

\* the second call returns
RerunSecond ==
    /\ rerun_pc = "between"
    /\ second_data' = Returned(TimedContractData(rerun_input, clock))
    /\ rerun_pc' = "done"
    /\ UNCHANGED <<rerun_input, clock, first_data, rerunFrame>>

RerunNext == RerunFirst \/ RerunWait \/ RerunSecond

RerunSpec == RerunInit /\ [][RerunNext]_vars

-----------------------------------------------------------------------------
(***************************************************************************)
(* The main block (comprehensive_analysis.py:2629-2708), run on one        *)
(* document after another in the same working directory.                   *)
(*                                                                         *)
(* A file is absent, or holds the number of the run that wrote it last and *)
(* what was written.  What extract_text_from_pdf and                       *)
(* extract_comprehensive_data do with a document is a choice: the          *)
(* documents that fail are those of ExtractSpec.  Writing a file succeeds. *)
(***************************************************************************)

MaxRuns == 3         \* runs of the main block, one after the other

OUTPUT_FILE == "contract_analysis.json"           \* line 2649
SUMMARY_FILE == "contract_summary.txt"            \* line 2656
ERROR_FILE == "contract_analysis_error.json"      \* lines 2682, 2698
DEBUG_FILE == "ai_response_debug.txt"             \* line 294

FileNames == {OUTPUT_FILE, SUMMARY_FILE, ERROR_FILE, DEBUG_FILE}

NoFile == [run |-> 0, content |-> "absent"]

\* open(name, "w") followed by the writes into it
WriteFile(fs, name, n, content) == [fs EXCEPT ![name] = [run |-> n, content |-> content]]

\* the message of the error file: lines 2686 and 2702
ErrorMessage(exception) ==
    IF exception = "ValueError"
      THEN "Contract analysis failed quality validation"
      ELSE "System error during contract analysis"

\* mutant: the handler also leaves a summary behind
HandlerFiles_WithSummary(exception) == {ERROR_FILE, SUMMARY_FILE}

\* the files the two except blocks open: lines 2682-2689 and 2698-2705
HandlerFiles(exception) == {ERROR_FILE}

MainInit ==
    /\ ChunkIdle /\ ScanIdle /\ SumIdle /\ ParseIdle /\ AiIdle /\ NumericIdle /\ AnalyticsIdle /\ RelIdle /\ HlIdle
    /\ ExpIdle /\ PartyIdle /\ RiskIdle /\ ProductIdle /\ GateIdle /\ MapIdle /\ RerunIdle
    /\ files = [name \in FileNames |-> NoFile]
    /\ files_before = files
    /\ wrote = {}
    /\ run = 1
    /\ main_pc = "start"
    /\ exit_status = 0

\* lines 2639-2641: the PDF is there, or the run exits with status 1
MainCheckPdf ==
    /\ main_pc = "start"
    /\ \E exists \in BOOLEAN :
        IF exists THEN main_pc' = "text" /\ exit_status' = exit_status
                  ELSE main_pc' = "exited" /\ exit_status' = 1
    /\ UNCHANGED <<files, files_before, wrote, run, mainFrame>>

\* line 2645: extract_text_from_pdf returns the text or raises (fitz.open on a damaged file)
MainExtractText ==
    /\ main_pc = "text"
    /\ main_pc' \in {"analyse", "Exception"}
    /\ UNCHANGED <<files, files_before, wrote, run, exit_status, mainFrame>>

\* line 2646: extract_comprehensive_data saves the AI response (lines 294-295),
\* then returns the ContractData or raises ValueError (lines 326, 331)
MainAnalyse ==
    /\ main_pc = "analyse"
    /\ files' = WriteFile(files, DEBUG_FILE, run, "ai_response")
    /\ wrote' = wrote \cup {DEBUG_FILE}
    /\ main_pc' \in {"write_json", "ValueError"}
    /\ UNCHANGED <<files_before, run, exit_status, mainFrame>>

\* lines 2649-2653
MainWriteJson ==
    /\ main_pc = "write_json"
    /\ files' = WriteFile(files, OUTPUT_FILE, run, "contract_data")
    /\ wrote' = wrote \cup {OUTPUT_FILE}
    /\ main_pc' = "write_summary"
    /\ UNCHANGED <<files_before, run, exit_status, mainFrame>>

\* lines 2656-2670, after which the script ends with status 0
MainWriteSummary ==
    /\ main_pc = "write_summary"
    /\ files' = WriteFile(files, SUMMARY_FILE, run, "summary")
    /\ wrote' = wrote \cup {SUMMARY_FILE}
    /\ main_pc' = "exited"
    /\ exit_status' = 0
    /\ UNCHANGED <<files_before, run, mainFrame>>

\* lines 2672-2691 (ValueError) and 2693-2707 (any other exception)
MainHandle ==
    /\ main_pc \in {"ValueError", "Exception"}
    /\ files' = [name \in FileNames |->
                    IF name \in HandlerFiles(main_pc)
                      THEN [run |-> run, content |-> ErrorMessage(main_pc)]
                      ELSE files[name]]
    /\ wrote' = wrote \cup HandlerFiles(main_pc)
    /\ main_pc' = "exited"
    /\ exit_status' = 1
    /\ UNCHANGED <<files_before, run, mainFrame>>

\* the script is started again, on the same or another document
MainAgain ==
    /\ main_pc = "exited"
    /\ run < MaxRuns
    /\ run' = run + 1
    /\ files_before' = files
    /\ wrote' = {}
    /\ main_pc' = "start"
    /\ exit_status' = 0
    /\ UNCHANGED <<files, mainFrame>>

MainNext ==
    \/ MainCheckPdf \/ MainExtractText \/ MainAnalyse
    \/ MainWriteJson \/ MainWriteSummary \/ MainHandle \/ MainAgain

MainSpec == MainInit /\ [][MainNext]_vars

-----------------------------------------------------------------------------
(***************************************************************************)
(* safe_gemini_generate (comprehensive_analysis.py:60-98) and what         *)
(* extract_comprehensive_data (lines 291-331) makes of its result.         *)
(*                                                                         *)
(* A marker is the token sequence of the string the code returns: its      *)
(* brackets are tokens of their own, as in every text of the reconciler.   *)
(***************************************************************************)

\* "[AI ANALYSIS UNAVAILABLE - No API key]", line 63
NO_KEY_MARKER ==
    <<"[", "AI", " ", "ANALYSIS", " ", "UNAVAILABLE", " ", "-", " ", "No", " ", "API", " ", "key", "]">>
\* "[AI ANALYSIS UNAVAILABLE - Empty response]", line 91
EMPTY_MARKER ==
    <<"[", "AI", " ", "ANALYSIS", " ", "UNAVAILABLE", " ", "-", " ", "Empty", " ", "response", "]">>
\* "[AI ANALYSIS UNAVAILABLE]", line 97
ERROR_MARKER == <<"[", "AI", " ", "ANALYSIS", " ", "UNAVAILABLE", "]">>

Markers == {NO_KEY_MARKER, EMPTY_MARKER, ERROR_MARKER}

\* what model.generate_content does: it raises, or resp.text is empty (or
\* reading it raises), or resp.text is a text
GenerateOutcomes == {[k |-> "raises", text |-> <<>>], [k |-> "empty", text |-> <<>>]}
                        \cup {[k |-> "text", text |-> t] : t \in AiResponses \ {<<>>}}

\* mutant: an exception of the API leaves the wrapper
SafeGenerate_Reraise(configured, outcome) ==
    IF ~configured THEN [raised |-> FALSE, requests |-> 0, value |-> NO_KEY_MARKER]
    ELSE IF outcome.k = "raises" THEN [raised |-> TRUE, requests |-> 1, value |-> <<>>]
    ELSE IF outcome.k = "empty" THEN [raised |-> FALSE, requests |-> 1, value |-> EMPTY_MARKER]
    ELSE [raised |-> FALSE, requests |-> 1, value |-> Strip(outcome.text)]

\* lines 60-97: whether an exception leaves the wrapper, how many times
\* generate_content was called, and the string returned
SafeGenerate(configured, outcome) ==
    IF ~configured THEN [raised |-> FALSE, requests |-> 0, value |-> NO_KEY_MARKER]
    ELSE IF outcome.k = "raises" THEN [raised |-> FALSE, requests |-> 1, value |-> ERROR_MARKER]
    ELSE IF outcome.k = "empty" THEN [raised |-> FALSE, requests |-> 1, value |-> EMPTY_MARKER]
    ELSE [raised |-> FALSE, requests |-> 1, value |-> Strip(outcome.text)]

\* what the call leaves alone besides the chunker, the scanner and the summary
aiOthers == <<expVars, partyVars, riskVars, productVars, gateVars, mapVars, rerunVars, mainVars, numericVars, analyticsVars, relVars, hlVars>>

AiInit ==
    /\ ChunkIdle /\ ScanIdle /\ SumIdle
    /\ ExpIdle /\ PartyIdle /\ RiskIdle /\ ProductIdle /\ GateIdle /\ MapIdle /\ RerunIdle /\ MainIdle /\ NumericIdle /\ AnalyticsIdle /\ RelIdle /\ HlIdle
    /\ ai_response = <<>> /\ json_text = <<>> /\ parse_pc = "waiting"
    /\ parse_error = NotRun /\ ai_data = NotRun
    /\ model \in {"configured", "None"}
    /\ ai_result = NotRun
    /\ ai_pc = "call"

\* line 291: ai_response = safe_gemini_generate(analysis_prompt); an exception
\* that left the wrapper would leave extract_comprehensive_data as it is
AiGenerate ==
    /\ ai_pc = "call"
    /\ \E outcome \in GenerateOutcomes :
        LET result == SafeGenerate(model = "configured", outcome)
        IN  /\ ai_result' = Returned([outcome |-> outcome.k] @@ result)
            /\ IF result.raised
                 THEN /\ ai_pc' = "raised"
                      /\ UNCHANGED <<ai_response, parse_pc>>
                 ELSE /\ ai_response' = result.value
                      /\ parse_pc' = "extract"
                      /\ ai_pc' = "parse"
    /\ UNCHANGED <<model, json_text, parse_error, ai_data, chunkVars, scanVars, sumVars, aiOthers>>

\* lines 299-331: an exception of parse_ai_json_response becomes the
\* ValueError of line 331; parsed data is returned or refused by the
\* converters and the two gates
AiFinish ==
    /\ ai_pc = "parse"
    /\ \/ parse_pc = "raised" /\ ai_pc' = "raised"
       \/ parse_pc = "loaded" /\ ai_pc' \in {"returned", "raised"}
    /\ UNCHANGED <<model, ai_result, parseVars, aiFrame>>

AiNext == AiGenerate \/ ParseNext \/ AiFinish

AiSpec == AiInit /\ [][AiNext]_vars

-----------------------------------------------------------------------------
(***************************************************************************)
(* extract_numeric_value (comprehensive_analysis.py:669-698)               *)
(*                                                                         *)
(* A text is a sequence of characters.  The value of a number is kept in   *)
(* hundredths, and the result as the pair of the parsed value and the      *)
(* multiplier applied to it, so that 5 000 000.00 is [value |-> 500,       *)
(* multiplier |-> 1000000].                                                *)
(***************************************************************************)

MILLION == 1000000
THOUSAND == 1000

DigitChars == {"0", "1", "2", "5"}
NumberChars == DigitChars \cup {","}
CurrencySigns == {"$"}

DigitValue(c) == CASE c = "0" -> 0 [] c = "1" -> 1 [] c = "2" -> 2 [] c = "5" -> 5

\* c.lower()
LowerChar(c) == CASE c = "M" -> "m" [] c = "K" -> "k" [] OTHER -> c

\* the position after the longest run of characters of S that starts at i
RunEnd(t, i, S) ==
    CHOOSE j \in i..(Len(t) + 1) :
        /\ \A k \in i..(j - 1) : t[k] \in S
        /\ j = Len(t) + 1 \/ t[j] \notin S

\* the word w stands at position i of t, ignoring case
HasAt(t, i, w) ==
    /\ i >= 1 /\ i + Len(w) - 1 <= Len(t)
    /\ \A k \in 1..Len(w) : LowerChar(t[i + k - 1]) = w[k]

\* w in t.lower()
Holds(t, w) == \E i \in 1..Len(t) : HasAt(t, i, w)

\* (?:\.\d{2})? at position j: the position after it
CentsEnd(t, j) ==
    IF j + 2 <= Len(t) /\ t[j] = "." /\ t[j + 1] \in DigitChars /\ t[j + 2] \in DigitChars
      THEN j + 3 ELSE j

\* (?:,\d{3})* at position j: the position after it
RECURSIVE GroupsEnd(_, _)
GroupsEnd(t, j) ==
    IF j + 3 <= Len(t) /\ t[j] = "," /\ \A k \in 1..3 : t[j + k] \in DigitChars
      THEN GroupsEnd(t, j + 4) ELSE j

\* the position after group(1) of each pattern when it starts at i
NumberEnd(t, i) == CentsEnd(t, RunEnd(t, i, NumberChars))
GroupedEnd(t, i) == CentsEnd(t, GroupsEnd(t, RunEnd(t, i, DigitChars)))
SimpleEnd(t, i) == CentsEnd(t, RunEnd(t, i, DigitChars))

\* the suffix alternatives of the first two patterns
MillionSuffixes == {<<"m", "i", "l", "l", "i", "o", "n">>, <<"m", "i", "l">>, <<"m">>}
ThousandSuffixes == {<<"t", "h", "o", "u", "s", "a", "n", "d">>, <<"k">>}

\* \s*(?:suffix) follows position j
SuffixFollows(t, j, suffixes) ==
    \E w \in suffixes : HasAt(t, RunEnd(t, j, {" "}), w)

\* lines 677-683: whether pattern p matches at position i, and where its group ends
PatternMatchesAt(p, t, i) ==
    /\ i \in 1..Len(t)
    /\ CASE p = 1 -> t[i] \in NumberChars /\ SuffixFollows(t, NumberEnd(t, i), MillionSuffixes)
         [] p = 2 -> t[i] \in NumberChars /\ SuffixFollows(t, NumberEnd(t, i), ThousandSuffixes)
         [] p = 3 -> t[i] \in NumberChars
         [] p \in {4, 5} -> t[i] \in DigitChars

GroupEnd(p, t, i) ==
    CASE p \in {1, 2, 3} -> NumberEnd(t, i)
      [] p = 4 -> GroupedEnd(t, i)
      [] p = 5 -> SimpleEnd(t, i)

PATTERN_COUNT == 5

\* re.search(pattern, text_str, re.IGNORECASE): <<group(1)>> of the leftmost match, or <<>>
SearchPattern(p, t) ==
    LET at == First({i \in 1..Len(t) : PatternMatchesAt(p, t, i)})
    IN  IF at = 0 THEN <<>> ELSE <<SubSeq(t, at, GroupEnd(p, t, at) - 1)>>

RECURSIVE DigitsValue(_)
DigitsValue(ds) ==
    IF ds = <<>> THEN 0
    ELSE 10 * DigitsValue(SubSeq(ds, 1, Len(ds) - 1)) + DigitValue(ds[Len(ds)])

\* float(group.replace(",", "")), in hundredths: <<value>>, or <<>> when float raises
FloatOf(group) ==
    LET plain == SelectSeq(group, LAMBDA c : c # ",")
        dot   == First({i \in 1..Len(plain) : plain[i] = "."})
        whole == IF dot = 0 THEN plain ELSE SubSeq(plain, 1, dot - 1)
        cents == IF dot = 0 THEN <<>> ELSE SubSeq(plain, dot + 1, Len(plain))
    IN  IF plain = <<>> THEN <<>>
        ELSE <<100 * DigitsValue(whole) + DigitsValue(cents)>>

\* lines 691-694: the multiplier is chosen by what the whole text holds
Multiplier(t) ==
    IF Holds(t, <<"m", "i", "l", "l", "i", "o", "n">>) \/ Holds(t, <<" ", "m", "i", "l">>)
            \/ Holds(t, <<" ", "m">>)
      THEN MILLION
    ELSE IF Holds(t, <<"t", "h", "o", "u", "s", "a", "n", "d">>) \/ Holds(t, <<" ", "k">>)
      THEN THOUSAND
    ELSE 1

NoValue == [value |-> 0, multiplier |-> 1]

\* lines 685-698: the first pattern that matches and whose group float() accepts
RECURSIVE TryPatterns(_, _)
TryPatterns(p, t) ==
    IF p > PATTERN_COUNT THEN NoValue
    ELSE LET found_group == SearchPattern(p, t)
             value == IF found_group = <<>> THEN <<>> ELSE FloatOf(found_group[1])
         IN  IF value = <<>> THEN TryPatterns(p + 1, t)
             ELSE [value |-> value[1], multiplier |-> Multiplier(t)]

\* lines 669-698
extract_numeric_value(t) ==
    IF t = <<>> THEN NoValue
    ELSE TryPatterns(1, SelectSeq(t, LAMBDA c : c \notin CurrencySigns))

\* ---- the texts handed to extract_numeric_value

Letters(w) ==
    CASE w = "" -> <<>>
      [] w = " " -> <<" ">>
      [] w = "$" -> <<"$">>
      [] w = ", " -> <<",", " ">>
      [] w = "5" -> <<"5">>
      [] w = "1,000" -> <<"1", ",", "0", "0", "0">>
      [] w = "2.50" -> <<"2", ".", "5", "0">>
      [] w = "1.5" -> <<"1", ".", "5">>
      [] w = "10 units at " -> <<"1", "0", " ", "u", "n", "i", "t", "s", " ", "a", "t", " ">>
      [] w = "million" -> <<"m", "i", "l", "l", "i", "o", "n">>
      [] w = "mil" -> <<"m", "i", "l">>
      [] w = "m" -> <<"m">>
      [] w = "M" -> <<"M">>
      [] w = "thousand" -> <<"t", "h", "o", "u", "s", "a", "n", "d">>
      [] w = "k" -> <<"k">>
      [] w = "months" -> <<"m", "o", "n", "t", "h", "s">>
      [] w = "per month" -> <<"p", "e", "r", " ", "m", "o", "n", "t", "h">>
      [] w = "units" -> <<"u", "n", "i", "t", "s">>
      [] w = "k per month" -> <<"k", " ", "p", "e", "r", " ", "m", "o", "n", "t", "h">>

AmountLeads == {"", "$", ", ", "10 units at "}
AmountNumbers == {"", "5", "1,000", "2.50", "1.5"}
AmountGaps == {"", " "}
AmountTails == {"", "million", "mil", "m", "M", "thousand", "k", "months", "per month",
                "units", "k per month"}

AmountTexts ==
    {Letters(lead) \o Letters(number) \o Letters(gap) \o Letters(tail) :
        lead \in AmountLeads, number \in AmountNumbers, gap \in AmountGaps, tail \in AmountTails}

NumericInit ==
    /\ ChunkIdle /\ ScanIdle /\ SumIdle /\ ParseIdle /\ MainIdle /\ AiIdle /\ AnalyticsIdle /\ RelIdle /\ HlIdle
    /\ ExpIdle /\ PartyIdle /\ RiskIdle /\ ProductIdle /\ GateIdle /\ MapIdle /\ RerunIdle
    /\ amount_text \in AmountTexts
    /\ numeric_value = NotRun
    /\ numeric_pc = "call"

ExtractNumericValue ==
    /\ numeric_pc = "call"
    /\ numeric_value' = Returned(extract_numeric_value(amount_text))
    /\ numeric_pc' = "returned"
    /\ UNCHANGED <<amount_text, numericFrame>>

NumericNext == ExtractNumericValue

NumericSpec == NumericInit /\ [][NumericNext]_vars

-----------------------------------------------------------------------------
(***************************************************************************)
(* The risks and the analytics of a ContractData                           *)
(* (comprehensive_analysis.py:643-647, 935-1009, 1923-1960, 2374-2477)     *)
(*                                                                         *)
(* parse_ai_json_response and calculate_analytics_enhanced each take the   *)
(* payload out of ai_response in their own way.  ai_response is a token    *)
(* sequence as in ParseSpec; the risk_factors that json.loads finds in the *)
(* payload are kept beside it.  A risk item holds its category, whether    *)
(* its risk_title is a text or a JSON null, and its risk_score.            *)
(***************************************************************************)

DEFAULT_OVERALL_RISK == 50      \* line 1926
RISK_CATEGORIES == {"high", "medium", "low"}      \* line 2396

RiskItem(category, titled, score) == [category |-> category, titled |-> titled, risk_score |-> score]

\* lines 552-607: the payload parse_ai_json_response hands to json.loads is accepted
ReconcilerLoads(resp) ==
    IF HasJsonMarker(resp) THEN IsJson(RepairIncomplete(ReplaceNull(FencedText(resp))))
    ELSE /\ BraceMatch(resp) # <<>>
         /\ IsJson(RepairIncomplete(ReplaceNull(BraceMatch(resp)[1])))

\* lines 2379-2384: the text calculate_analytics_enhanced hands to json.loads
AnalyticsText(resp) ==
    LET start_idx == First(Positions(resp, {JSON_MARKER}))
        end_idx   == First({j \in Positions(resp, {FENCE, JSON_MARKER}) : j > start_idx})
    IN  IF start_idx # 0 /\ end_idx # 0
          THEN Strip(SubSeq(resp, start_idx + 1, end_idx - 1))
          ELSE resp

\* line 2386: json.loads(json_text) returns
AnalyticsLoads(resp) == IsJson(AnalyticsText(resp))

\* lines 939-1009: the risks convert_ai_risks returns for items with numeric
\* scores.  nulls tells whether the items come from the reconciler, where a
\* JSON null has become the text "Not specified" (line 577), or from
\* json.loads alone, where it is None: an item whose risk_title is None is
\* skipped (line 940).
ConvertedRiskItems(items, replaced) ==
    LET kept == SelectSeq(items, LAMBDA r : r.titled \/ replaced)
    IN  [i \in 1..Len(kept) |->
            [category |-> kept[i].category,
             riskScore |-> Max(MIN_RISK_SCORE, Min(MAX_RISK_SCORE, kept[i].risk_score)),
             title_len |-> 20]]

\* lines 1925-1939: the analytics of calculate_analytics for a response without an ANALYTICS: section
DefaultAnalytics ==
    [overallRiskScore |-> DEFAULT_OVERALL_RISK,
     riskDistribution |-> [c \in RISK_CATEGORIES |-> 0]]

\* lines 2395-2407 and 2461-2462
AnalyticsOf(converted) ==
    [overallRiskScore |-> SumSeq([i \in 1..Len(converted) |-> converted[i].riskScore]) \div Len(converted),
     riskDistribution |-> [c \in RISK_CATEGORIES |->
                              Len(SelectSeq(converted, LAMBDA r : r.category = c))]]

\* lines 2374-2393: any exception inside the try gives calculate_analytics:
\* json.loads fails, or no item is left (line 1007), or a category is None
\* (line 942 calls None.lower())
calculate_analytics_enhanced(resp, items) ==
    LET converted == ConvertedRiskItems(items, FALSE)
    IN  IF ~AnalyticsLoads(resp) \/ converted = <<>>
           \/ \E i \in 1..Len(items) : items[i].titled /\ items[i].category = "null"
          THEN DefaultAnalytics
          ELSE AnalyticsOf(converted)

AnalyticsCategories == {"high", "medium", "critical", "null"}
AnalyticsScores == {55, 56, 90}

\* three risks: two plain ones and one of any category, title and score
AnalyticsRiskLists ==
    {<<RiskItem("high", TRUE, 55), RiskItem("low", TRUE, 55), RiskItem(c, t, s)>> :
        c \in AnalyticsCategories, t \in BOOLEAN, s \in AnalyticsScores}

\* a document, whole or cut off before its last closers: every value it
\* carries is in what is left
AnalyticsPayloads ==
    UNION {{SubSeq(d, 1, k) : k \in {n \in 1..Len(d) :
                \A j \in (n + 1)..Len(d) : d[j] \in {"]", "}"}}} : d \in Documents}

AnalyticsResponses ==
    {Wrap(b, o, p, c, a) : b \in Prose, o \in Openers, p \in AnalyticsPayloads,
                           c \in Closers, a \in Prose}

AnalyticsInit ==
    /\ ChunkIdle /\ ScanIdle /\ SumIdle /\ ParseIdle /\ MainIdle /\ AiIdle /\ NumericIdle /\ RelIdle /\ HlIdle
    /\ ExpIdle /\ PartyIdle /\ RiskIdle /\ ProductIdle /\ GateIdle /\ MapIdle /\ RerunIdle
    /\ analytics_input \in [response : AnalyticsResponses, risk_factors : AnalyticsRiskLists]
    /\ analytics_data = NotRun
    /\ analytics_pc = "parse"

\* lines 550-667: json.loads raises, or the risks are converted (line 643)
\* and the analytics calculated (line 647)
AnalyticsParse ==
    /\ analytics_pc = "parse"
    /\ IF ReconcilerLoads(analytics_input.response)
         THEN /\ analytics_data' =
                    Returned([risks |-> ConvertedRiskItems(analytics_input.risk_factors, TRUE),
                              analytics |-> calculate_analytics_enhanced(analytics_input.response,
                                                                         analytics_input.risk_factors)])
              /\ analytics_pc' = "parsed"
         ELSE /\ analytics_pc' = "raised"
              /\ UNCHANGED analytics_data
    /\ UNCHANGED <<analytics_input, analyticsFrame>>

\* the ContractData of a document that is clean in every other respect
AnalyticsContract(data) ==
    [parties |-> << <<"Acme", "Inc">>, <<"Acme", "Inc">> >>,
     products |-> <<[name |-> "Acme Router X1", quantity |-> 5]>>,
     financialTerms |-> [generic_payment_terms |-> FALSE, totalValue |-> 1000],
     timeline |-> <<Dated, Dated, Dated>>,
     risks |-> data.risks,
     analytics |-> [overallRiskScore |-> data.analytics.overallRiskScore,
                    total_risks |-> SumSeq([i \in 1..3 |->
                        data.analytics.riskDistribution[<<"high", "medium", "low">>[i]]])],
     documentStructure |-> [sections |-> 3, totalPages |-> 5]]

\* lines 304-331: the quality gate and the strict validation
AnalyticsGate ==
    /\ analytics_pc = "parsed"
    /\ LET cd == AnalyticsContract(analytics_data[1])
       IN  analytics_pc' =
              IF BelowThreshold(perform_quality_checks(cd).quality_score)
                      \/ critical_errors(StrictErrors(cd)) # <<>>
                THEN "raised" ELSE "returned"
    /\ UNCHANGED <<analytics_input, analytics_data, analyticsFrame>>

AnalyticsNext == AnalyticsParse \/ AnalyticsGate

AnalyticsSpec == AnalyticsInit /\ [][AnalyticsNext]_vars

-----------------------------------------------------------------------------
(***************************************************************************)
(* The parties and the relationships of the ContractData built by          *)
(* parse_ai_json_response (comprehensive_analysis.py:635-641), with        *)
(* extract_relationships (1756-1767) under safe_extract (100-107)          *)
(*                                                                         *)
(* An id "party_<n>" is taken by its number n.                             *)
(***************************************************************************)

\* lines 1758-1767: one relationship, from "party_1" to "party_2", whatever the arguments
extract_relationships ==
    <<[from |-> 1, to |-> 2, type |-> "contractual", strength |-> "strong"]>>

\* lines 102-104: the result of the call, or the default when it is None
safe_extract(result, default) == IF result = NotRun THEN default ELSE result[1]

BuildInit ==
    /\ ChunkIdle /\ ScanIdle /\ SumIdle /\ ParseIdle /\ MainIdle /\ AiIdle /\ NumericIdle /\ HlIdle
    /\ ExpIdle /\ RiskIdle /\ ProductIdle /\ GateIdle /\ MapIdle /\ RerunIdle /\ AnalyticsIdle
    /\ ai_parties \in SeqsUpTo(PartyCandidates, MaxParties)
    /\ parties = NotRun
    /\ party_error = NotRun
    /\ party_pc = "call"
    /\ relationships = NotRun
    /\ rel_pc = "parties"

\* line 635 is ConvertParties; line 641
BuildRelationships ==
    /\ rel_pc = "parties"
    /\ party_pc = "returned"
    /\ relationships' = Returned(safe_extract(Returned(extract_relationships), <<>>))
    /\ rel_pc' = "built"
    /\ UNCHANGED relFrame

\* the exception of convert_ai_parties leaves the dict literal of line 626 unbuilt
BuildRaise ==
    /\ rel_pc = "parties"
    /\ party_pc = "raised"
    /\ rel_pc' = "raised"
    /\ UNCHANGED <<relationships, relFrame>>

BuildNext == ConvertParties \/ BuildRelationships \/ BuildRaise

BuildSpec == BuildInit /\ [][BuildNext]_vars

-----------------------------------------------------------------------------
(***************************************************************************)
(* pdf_highlighter.py: search_text_in_pdf (25-51), highlight_text_areas    *)
(* (53-101), highlight_clause_areas (103-197) and create_highlighted_pdf   *)
(* (199-291)                                                               *)
(*                                                                         *)
(* A document is the list of its pages.  A page is the list of its lines   *)
(* and the number of characters page.get_text finds in a clipped area; a   *)
(* line is a lower-case text with what stands before and after it.  A rect *)
(* is taken by the number of the line it lies on.  Page numbers in         *)
(* results and annotations are 0-based, as in the code.                    *)
(***************************************************************************)

DEFAULT_PAGE_NUMBER == 1
MIN_AREA_CHARS == 5
MIN_PARTY_NAME == 5
None == "None"

\* dict.get(key, default)
DictGet(d, key, default) == IF key \in DOMAIN d THEN d[key] ELSE default

\* str.lower() of the texts searched for
LowerText(t) ==
    CASE t = "Termination" -> "termination"
      [] t = "Fees" -> "fees"
      [] t = "Indemnification" -> "indemnification"
      [] t = "IP" -> "ip"
      [] t = "Acme Inc" -> "acme inc"
      [] t = "Jane Doe" -> "jane doe"
      [] t = "Clause " -> "clause "
      [] t = "Section " -> "section "
      [] t = "Article " -> "article "
      [] t = "High" -> "high"
      [] t = "Medium" -> "medium"
      [] t = "Low" -> "low"
      [] OTHER -> t

\* the pairs <<a, b>> of lower-case texts with a inside b
Within ==
    { <<"exclusive", "sole and exclusive">>, <<"ip", "ownership">>,
      <<"terminate", "terminates">> }

Pattern(pre, t, post) == [pre |-> pre, text |-> t, post |-> post]

Line(pre, t, post) == [pre |-> pre, text |-> t, post |-> post]

\* the pattern lies in the line, whatever the case
Occurs(pat, line) ==
    LET t == LowerText(pat.text)
    IN  IF pat.pre = "" /\ pat.post = ""
          THEN t = line.text \/ <<t, line.text>> \in Within
          ELSE /\ t = line.text
               /\ pat.pre = "" \/ LowerText(pat.pre) = line.pre
               /\ pat.post = "" \/ pat.post = line.post

\* page.search_for(search_text): the rects of the instances on the page (line 42)
SearchFor(page, pat) ==
    SelectSeq([k \in 1..Len(page.lines) |-> k], LAMBDA k : Occurs(pat, page.lines[k]))

\* lines 25-51; page_num is <<the page>>, or <<>> for None
search_text_in_pdf(pdf, pat, page_num) ==
    LET pages_to_search == IF page_num = <<>> THEN [i \in 1..Len(pdf) |-> i - 1]
                           ELSE page_num
    IN  Flatten([n \in 1..Len(pages_to_search) |->
            LET page_idx == pages_to_search[n]
            IN  IF page_idx >= Len(pdf) THEN <<>>
                ELSE LET text_instances == SearchFor(pdf[page_idx + 1], pat)
                     IN  [k \in 1..Len(text_instances) |->
                             [page |-> page_idx, rect |-> text_instances[k]]]])

\* lines 53-101: the annotations added for a list of highlight definitions
highlight_text_areas(pdf, highlights) ==
    Flatten([n \in 1..Len(highlights) |->
        LET highlight_def == highlights[n]
        IN  IF highlight_def.text = "" THEN <<>>
            ELSE LET search_results ==
                         search_text_in_pdf(pdf, Pattern("", highlight_def.text, ""),
                                            DictGet(highlight_def, "page", <<>>))
                 IN  [k \in 1..Len(search_results) |->
                         [page |-> search_results[k].page, rect |-> search_results[k].rect,
                          src |-> highlight_def.src]]])

\* lines 126-132
ClausePatterns(clause_id) ==
    << Pattern("", clause_id, ""), Pattern("Clause ", clause_id, ""),
       Pattern("Section ", clause_id, ""), Pattern("", clause_id, "."),
       Pattern("Article ", clause_id, "") >>

\* line 110
ClausePageNumber(clause) == DictGet(clause, "pageNumber", DEFAULT_PAGE_NUMBER) - 1

\* lines 109-195: the annotations added for the n-th entry of the clause risk map
ClauseAnnotations(pdf, clause, n) ==
    LET page_num  == ClausePageNumber(clause)
        clause_id == DictGet(clause, "clause", "")
        position  == DictGet(clause, "position", [k \in {} |-> 0])
    IN  IF page_num >= Len(pdf) \/ page_num < 0 THEN <<>>
        ELSE LET page  == pdf[page_num + 1]
                 found_by == IF clause_id = "" THEN <<>>
                          ELSE SelectSeq(ClausePatterns(clause_id), LAMBDA pat :
                                   search_text_in_pdf(pdf, pat, <<page_num>>) # <<>>)
             IN  IF found_by # <<>>
                   THEN <<[page |-> page_num,
                           rect |-> search_text_in_pdf(pdf, found_by[1], <<page_num>>)[1].rect,
                           src |-> <<"clause", n>>]>>
                 ELSE IF DOMAIN position # {} /\ page.area_chars > MIN_AREA_CHARS
                   THEN <<[page |-> page_num, rect |-> 0, src |-> <<"clause", n>>]>>
                 ELSE <<>>

\* lines 103-197
highlight_clause_areas(pdf, clause_risk_map) ==
    Flatten([n \in 1..Len(clause_risk_map) |-> ClauseAnnotations(pdf, clause_risk_map[n], n)])

\* lines 231-245: the terms looked for in title.lower(), each with its two key phrases
KEY_TERMS ==
    << [term |-> "automatic renewal", phrases |-> <<"automatic renewal", "automatically renew">>],
       [term |-> "exclusive", phrases |-> <<"exclusive", "sole and exclusive">>],
       [term |-> "termination", phrases |-> <<"termination", "terminate">>],
       [term |-> "intellectual property", phrases |-> <<"intellectual property", "IP">>] >>

\* term in title.lower(), for the titles of the risks of a ContractData
TitleHolds(title, term) ==
    <<title, term>> \in
        { <<"Automatic Renewal Trap", "automatic renewal">>,
          <<"Exclusive Termination Rights", "exclusive">>,
          <<"Exclusive Termination Rights", "termination">>,
          <<"Early Termination Fee", "termination">>,
          <<"Intellectual Property Transfer", "intellectual property">> }

\* lines 228-245
KeyPhrases(title) ==
    Flatten([t \in 1..Len(KEY_TERMS) |->
        IF TitleHolds(title, KEY_TERMS[t].term) THEN KEY_TERMS[t].phrases ELSE <<>>])

\* lines 221-253: the highlight definitions of the risks; src stands for the description
RiskHighlights(contract_risks) ==
    Flatten([i \in 1..Len(contract_risks) |->
        LET phrases == KeyPhrases(contract_risks[i].title)
        IN  [k \in 1..Len(phrases) |->
                [text |-> phrases[k], risk_level |-> LowerText(contract_risks[i].category), src |-> <<"risk", i, k>>]]])

\* len(name)
HlNameLen(name) ==
    CASE name = "" -> 0
      [] name = "Bob" -> 3
      [] name = "Acme Inc" -> 8
      [] name = "Jane Doe" -> 8

\* lines 260-268: the highlight definitions of the parties
PartyHighlights(contract_parties) ==
    Flatten([j \in 1..Len(contract_parties) |->
        IF contract_parties[j].name # "" /\ HlNameLen(contract_parties[j].name) > MIN_PARTY_NAME
          THEN <<[text |-> contract_parties[j].name, risk_level |-> "info", src |-> <<"party", j>>]>>
          ELSE <<>>])

\* lines 271-272: risk_highlights[len(risks):], applied if len(risk_highlights) > len(risks)
PartySlice(risk_highlights, contract_risks) ==
    IF Len(risk_highlights) > Len(contract_risks)
      THEN SubSeq(risk_highlights, Len(contract_risks) + 1, Len(risk_highlights))
      ELSE <<>>

\* lines 278-283 and 286-291
Succeeded(n) == [success |-> TRUE, highlights_added |-> n]
Failed(error) == [success |-> FALSE, highlights_added |-> 0, error |-> error]

\* ---- the documents, the ContractData and the outcomes of fitz.open and doc.save

HeadedPage ==
    [lines |-> <<Line("section ", "termination", "."), Line("", "terminate", ""),
                 Line("", "acme inc", "")>>,
     area_chars |-> 40]
FeesPage ==
    [lines |-> <<Line("", "fees", ""), Line("", "sole and exclusive", ""),
                 Line("", "exclusive", "")>>,
     area_chars |-> 40]
BlankPage == [lines |-> <<>>, area_chars |-> 0]
SignaturePage ==
    [lines |-> <<Line("", "termination", ""), Line("", "jane doe", ""), Line("", "acme inc", "")>>,
     area_chars |-> 3]

HlDocuments ==
    { <<HeadedPage>>, <<HeadedPage, FeesPage>>, <<BlankPage, SignaturePage>>,
      <<FeesPage, BlankPage, HeadedPage>> }

\* comprehensive_analysis.py:1850-1861: the i-th entry as the mapper writes it
MappedEntry(clause, page, i) ==
    [riskLevel |-> "high",
     position |-> [top |-> 10 + (i * 15), left |-> 5, width |-> 90, height |-> 8]]
        @@ MapEntry(clause, page)

HlClauseMaps ==
    { <<>>, <<MappedEntry("Termination", 1, 0)>>, <<MappedEntry("Termination", 2, 0)>>,
      <<MappedEntry("Fees", 2, 0), MappedEntry("Termination", 3, 1)>>,
      <<MappedEntry("Indemnification", 4, 0)>>, <<MappedEntry("Termination", 0, 0)>> }

PlainRisk == [title |-> "Payment Delay", category |-> "Low"]
TerminationRisk == [title |-> "Early Termination Fee", category |-> "High"]
ExclusiveRisk == [title |-> "Exclusive Termination Rights", category |-> "Medium"]
UntitledRisk == [title |-> None, category |-> "Low"]

HlRiskLists ==
    { <<>>, <<PlainRisk>>, <<TerminationRisk>>, <<PlainRisk, PlainRisk>>,
      <<PlainRisk, PlainRisk, PlainRisk>>, <<PlainRisk, TerminationRisk>>,
      <<ExclusiveRisk, TerminationRisk>>, <<TerminationRisk, UntitledRisk>> }

HlParty(name) == [name |-> name, role |-> "Contract Party"]

HlPartyLists ==
    { <<>>, <<HlParty("Acme Inc")>>, <<HlParty("Acme Inc"), HlParty("Jane Doe")>>,
      <<HlParty("Bob"), HlParty("Acme Inc"), HlParty("Jane Doe")>> }

HlOutcomes == {"ok", "open raises", "save raises"}

HlInit ==
    /\ ChunkIdle /\ ScanIdle /\ SumIdle /\ ParseIdle /\ MainIdle /\ AiIdle /\ NumericIdle
    /\ ExpIdle /\ PartyIdle /\ RiskIdle /\ ProductIdle /\ GateIdle /\ MapIdle /\ RerunIdle
    /\ AnalyticsIdle /\ RelIdle
    /\ hl_input \in {Returned(i) : i \in
           [pdf : HlDocuments, clauseRiskMap : HlClauseMaps, risks : HlRiskLists,
            parties : HlPartyLists, outcome : HlOutcomes]}
    /\ annots = <<>>
    /\ applied = <<>>
    /\ highlights_added = 0
    /\ hl_result = NotRun
    /\ hl_pc = "open"

\* lines 285-291: the handler of every Exception
HlFail(error) ==
    /\ hl_result' = Returned(Failed(error))
    /\ hl_pc' = "done"

\* line 208
HlOpen ==
    /\ hl_pc = "open"
    /\ IF hl_input[1].outcome = "open raises"
         THEN HlFail("FileNotFoundError")
         ELSE hl_pc' = "clauses" /\ UNCHANGED hl_result
    /\ UNCHANGED <<hl_input, annots, applied, highlights_added, hlFrame>>

\* lines 213-215
HlClauses ==
    /\ hl_pc = "clauses"
    /\ LET added == highlight_clause_areas(hl_input[1].pdf, hl_input[1].clauseRiskMap)
       IN  /\ annots' = annots \o added
           /\ highlights_added' = highlights_added + Len(added)
    /\ hl_pc' = "risks"
    /\ UNCHANGED <<hl_input, applied, hl_result, hlFrame>>

\* lines 218-257; title.lower() of a title that is None raises AttributeError
HlRisks ==
    /\ hl_pc = "risks"
    /\ IF \E i \in 1..Len(hl_input[1].risks) : hl_input[1].risks[i].title = None
         THEN /\ HlFail("AttributeError")
              /\ UNCHANGED <<annots, applied, highlights_added>>
         ELSE LET risk_highlights == RiskHighlights(hl_input[1].risks)
                  added == highlight_text_areas(hl_input[1].pdf, risk_highlights)
              IN  /\ applied' = applied \o risk_highlights
                  /\ annots' = annots \o added
                  /\ highlights_added' = highlights_added + Len(added)
                  /\ hl_pc' = "parties"
                  /\ UNCHANGED hl_result
    /\ UNCHANGED <<hl_input, hlFrame>>

\* lines 260-272
HlParties ==
    /\ hl_pc = "parties"
    /\ LET risk_highlights == RiskHighlights(hl_input[1].risks)
                                  \o PartyHighlights(hl_input[1].parties)
           party_slice == PartySlice(risk_highlights, hl_input[1].risks)
           added == highlight_text_areas(hl_input[1].pdf, party_slice)
       IN  /\ applied' = applied \o party_slice
           /\ annots' = annots \o added
           /\ highlights_added' = highlights_added + Len(added)
    /\ hl_pc' = "save"
    /\ UNCHANGED <<hl_input, hl_result, hlFrame>>

\* lines 275-283
HlSave ==
    /\ hl_pc = "save"
    /\ IF hl_input[1].outcome = "save raises"
         THEN HlFail("PermissionError")
         ELSE hl_result' = Returned(Succeeded(highlights_added)) /\ hl_pc' = "done"
    /\ UNCHANGED <<hl_input, annots, applied, highlights_added, hlFrame>>

HlNext == HlOpen \/ HlClauses \/ HlRisks \/ HlParties \/ HlSave

HlSpec == HlInit /\ [][HlNext]_vars

-----------------------------------------------------------------------------
(* Properties of the scanner and the global checker *)

\* the patterns of RISK_KEYWORDS that occur in t
Matched(t) == {k \in 1..Len(RISK_KEYWORDS) : MatchStarts(RISK_KEYWORDS[k].re, t) # {}}

MatchedOfWeight(t, w) == {k \in Matched(t) : RISK_KEYWORDS[k].weight = w}

\* f lists Id(k) for the elements k of the set S of indices, in increasing order
ListsInOrder(f, S, Id(_)) ==
    /\ Len(f) = Cardinality(S)
    /\ \A k \in S : f[Cardinality({m \in S : m <= k})] = Id(k)

IsFirstSpan(e, k, t) ==
    LET S == MatchStarts(RISK_KEYWORDS[k].re, t)
        i == CHOOSE j \in S : \A m \in S : j <= m
    IN  /\ Len(e) >= 1
        /\ S # {}
        /\ i + Len(e) - 1 <= Len(t)
        /\ \A j \in 1..(Len(e) - 1) : e[j] = t[i + j - 1]
        /\ StartsWith(t[i + Len(e) - 1], e[Len(e)])
        /\ MatchFrom(RISK_KEYWORDS[k].re, 1, t, i) = i + Len(e)

\* C5: clause_loopholes holds one entry for each matched pattern of weight
\* <= 3 (MEDIUM and LOW) and none for a matched HIGH pattern, in declaration
\* order, each quoting the first matched span of its pattern; there are never
\* more loopholes than flags.
C5_LoopholesForLowAndMedium ==
    clause_result # NotRun =>
        LET r == clause_result[1]
            M == Matched(doc)
            Amb == {k \in M : RISK_KEYWORDS[k].weight \in {1, 3}}
        IN  /\ Len(r.clause_loopholes) = Cardinality(Amb)
            /\ \A k \in Amb :
                  IsFirstSpan(r.clause_loopholes[Cardinality({m \in Amb : m <= k})], k, doc)
            /\ Len(r.clause_loopholes) <= Len(r.clause_flags)
            /\ (M # {} /\ Amb = {}) => r.clause_loopholes = <<>>

\* a scanned chunk that matches a HIGH, a MEDIUM and a LOW pattern: three
\* flags, two loopholes
C5_Witness ==
    /\ clause_result # NotRun
    /\ Cardinality(MatchedOfWeight(doc, 5)) = 1
    /\ Cardinality(MatchedOfWeight(doc, 3)) = 1
    /\ Cardinality(MatchedOfWeight(doc, 1)) = 1
    /\ Len(clause_result[1].clause_flags) = 3
    /\ Len(clause_result[1].clause_loopholes) = 2

\* the rules of GLOBAL_RISK_RULES whose required pattern occurs nowhere in t
Absent(t) ==
    {k \in 1..Len(GLOBAL_RISK_RULES) :
        \A pat \in GLOBAL_RISK_RULES[k].alts : MatchStarts(pat, t) = {}}

C6_FlagsOfAbsentRules ==
    global_result # NotRun =>
        LET g == global_result[1]
            FlagOf(k) == [name |-> GLOBAL_RISK_RULES[k].name,
                          severity |-> GLOBAL_RISK_RULES[k].severity]
        IN  /\ \A k \in 1..Len(GLOBAL_RISK_RULES) :
                  (\E i \in 1..Len(g) : g[i].name = GLOBAL_RISK_RULES[k].name)
                      <=> k \in Absent(doc)
            /\ ListsInOrder(g, Absent(doc), FlagOf)
            /\ Absent(doc) = 1..3 =>
                  [i \in 1..Len(g) |-> g[i].severity] = <<20, 15, 15>>
            /\ Absent(doc) = {} => g = <<>>

\* C6: detect_global_risks emits the flag of a rule if and only if the rule's
\* required pattern occurs nowhere in the full text, in rule declaration
\* order: a text matching none of the three patterns yields all three flags
\* (severities 20, 15, 15), a text matching all of them the empty list; and the
\* call changes nothing but its own result.
C6_GlobalFlags ==
    /\ []C6_FlagsOfAbsentRules
    /\ [][global_result' # global_result =>
            (doc' = doc /\ clause_result' = clause_result /\ UNCHANGED <<chunkVars, sumVars, parseVars, reconVars>>)]_vars

\* a checked text in which all three required clauses occur: no flag
C6_Witness ==
    /\ global_result = Returned(<<>>)
    /\ Absent(doc) = {}
    /\ Len(doc) > 0


-----------------------------------------------------------------------------
(* Properties of summarize_contract *)

CountLevel(levels, lvl) == Cardinality({i \in 1..Len(levels) : levels[i] = lvl})

\* C7: the risk meter equals floor(min(10 * average(weights), 50) +
\* min(sum of flag severities, 50)) with weights HIGH=5, MEDIUM=3, LOW=1,
\* NONE=0 and average 0 for zero chunks, and is an integer in [0, 100];
\* [HIGH,HIGH,HIGH] with no flags gives 50, zero chunks with severities summing
\* to 60 gives 50, average 3 with severities summing to 10 gives 40.  With n
\* chunks of weight sum S the clause half c is the integer with
\* c <= min(10 * S / n, 50) < c + 1.
C7_RiskMeterFormula ==
    (sum_pc = "return" /\ risk_meter # NotRun) =>
        LET n == Len(clause_risk_levels)
            S == 5 * CountLevel(clause_risk_levels, "HIGH")
                 + 3 * CountLevel(clause_risk_levels, "MEDIUM")
                 + CountLevel(clause_risk_levels, "LOW")
            sev == SumSeq([i \in 1..Len(global_flags) |-> global_flags[i].severity])
            g == IF sev > 50 THEN 50 ELSE sev
            c == risk_meter[1] - g
        IN  /\ risk_meter[1] \in 0..100
            /\ c \in 0..50
            /\ n = 0 => c = 0
            /\ (n > 0 /\ 10 * S >= 50 * n) => c = 50
            /\ (n > 0 /\ 10 * S < 50 * n) => (c * n <= 10 * S /\ 10 * S < (c + 1) * n)
            /\ (clause_risk_levels = <<"HIGH", "HIGH", "HIGH">> /\ global_flags = <<>>)
                  => risk_meter[1] = 50
            /\ (n = 0 /\ sev = 60) => risk_meter[1] = 50
            /\ (n > 0 /\ S = 3 * n /\ sev = 10) => risk_meter[1] = 40

\* zero chunks and severities summing to 60: the global half is capped
C7_Witness ==
    /\ sum_pc = "return" /\ risk_meter = Returned(50)
    /\ clause_risk_levels = <<>>
    /\ SumSeq([i \in 1..Len(global_flags) |-> global_flags[i].severity]) = 60

\* C8: for a fixed document text the clauses, clause_risk_levels,
\* clause_risk_flags, clause_loophole_map, global_flags and risk_meter that
\* summarize_contract returns are the same in every run, whatever the AI calls
\* return and whichever of them fail: the second run returns the six values
\* the first run returned, and no run is aborted by an AI failure.
C8_RuleBasedValuesIgnoreAi ==
    /\ sum_pc # "raised"
    /\ (run_no = 2 /\ sum_pc = "returned") =>
          /\ first_run # NotRun
          /\ SubSeq(Returns, 1, 6) = SubSeq(first_run[1], 1, 6)

\* two finished runs on a document with a clause, the second with a failed AI
\* call, whose summaries differ
C8_Witness ==
    /\ run_no = 2 /\ sum_pc = "returned"
    /\ Len(clause_risk_levels) >= 1
    /\ clause_risk_levels[1] # "NONE"
    /\ clause_ai_summaries[1] = "[AI ANALYSIS ERROR]"
    /\ final_summary # first_run[1][7]


-----------------------------------------------------------------------------
(* Properties of parse_ai_json_response *)

IsFence(tok) == tok \in {FENCE, JSON_MARKER}

\* the first fenced code block of resp opens at i and closes at j
IsFirstBlock(resp, i, j) ==
    /\ i \in 1..Len(resp) /\ j \in (i + 1)..Len(resp)
    /\ IsFence(resp[i]) /\ IsFence(resp[j])
    /\ \A k \in 1..(j - 1) : k # i => ~IsFence(resp[k])

HasCodeBlock(resp) == \E i, j \in 1..Len(resp) : IsFirstBlock(resp, i, j)

\* a fence that opens no closed block
HasLoneFence(resp) == ~HasCodeBlock(resp) /\ \E i \in 1..Len(resp) : IsFence(resp[i])

\* the first "{" of resp is at a and its last "}" at b, after a
IsBraceSpan(resp, a, b) ==
    /\ a \in 1..Len(resp) /\ b \in 1..Len(resp) /\ a < b
    /\ resp[a] = "{" /\ resp[b] = "}"
    /\ \A k \in 1..Len(resp) : (resp[k] = "{" => a <= k) /\ (resp[k] = "}" => k <= b)

HasBraceSpan(resp) == \E a, b \in 1..Len(resp) : IsBraceSpan(resp, a, b)

\* the payload the stated order selects, as <<payload>>, or <<>> for none
ClaimedPayload(resp) ==
    IF HasCodeBlock(resp)
      THEN LET i == CHOOSE i \in 1..Len(resp) : \E j \in 1..Len(resp) : IsFirstBlock(resp, i, j)
               j == CHOOSE j \in 1..Len(resp) : IsFirstBlock(resp, i, j)
           IN  <<Strip(SubSeq(resp, i + 1, j - 1))>>
    ELSE IF HasBraceSpan(resp)
      THEN LET a == CHOOSE a \in 1..Len(resp) : \E b \in 1..Len(resp) : IsBraceSpan(resp, a, b)
               b == CHOOSE b \in 1..Len(resp) : IsBraceSpan(resp, a, b)
           IN  <<SubSeq(resp, a, b)>>
    ELSE <<>>

\* C9: the payload selected is the content of the fenced code block when the
\* AI output contains one; otherwise the span from the first '{' to the last
\* '}'; otherwise the call fails with a parse error and builds no contract
\* data.  Stated on what the call does, for the outputs whose fences, if any,
\* form a closed block (with the json tag or with none): the call ends as the
\* cleaning and json.loads end on the payload selected in that order, and a
\* failed call leaves no data.
C9_FencedBlockThenBraceSpan ==
    (parse_pc \in {"loaded", "raised"} /\ ~HasLoneFence(ai_response)) =>
        LET selected == ClaimedPayload(ai_response)
            cleaned  == RepairIncomplete(ReplaceNull(selected[1]))
        IN  IF selected # <<>> /\ IsJson(cleaned)
              THEN /\ parse_pc = "loaded"
                   /\ ai_data = Returned(SelectSeq(cleaned, LAMBDA tok : ~IsSpace(tok)))
              ELSE parse_pc = "raised" /\ ai_data = NotRun

\* C10: the AI output {"a": [1,2,3, bare or wrapped in a code fence, is
\* repaired to {"a": [1,2,3]} and the repaired text parses as JSON.
C10_TruncatedArrayRepaired ==
    LET truncated == SubSeq(ArrayDocument, 1, Len(ArrayDocument) - 2)
    IN  (/\ ai_response \in {truncated, Wrap(<<>>, <<JSON_MARKER, "\n">>, truncated, <<"\n", FENCE>>, <<>>)}
         /\ parse_pc \in {"load", "loaded", "raised"})
        => /\ json_text = ArrayDocument
           /\ parse_pc # "raised"

-----------------------------------------------------------------------------
(* Properties of the expiration date *)

\* C11: when the payload carries no expiration date, expirationDate is
\* effective_date + 365 * contract_term_years days if both are present in the
\* payload and parseable, and otherwise the 'Not specified' sentinel; it is
\* never filled from the current date or from an assumed term length.
C11_ExpirationDerivedOrSentinel ==
    LET given == contract_basics.expiration_date
        eff   == contract_basics.effective_date
        term  == contract_basics.contract_term_years
    IN  (exp_pc = "done" /\ given \in {Missing, Sentinel, EmptyStr}) =>
            IF eff.k = "date" /\ term.k \in {"num", "years"}
              THEN expirationDate = Returned(DateStr(eff.v + 365 * term.v))
              ELSE expirationDate = Returned(Sentinel)

-----------------------------------------------------------------------------
(* Properties of convert_ai_parties *)

\* what the claim asks of an accepted legal name
AcceptableName(name) ==
    /\ NameLen(name) > 3
    /\ \A p \in 1..Len(excluded_placeholders) : ~HoldsPlaceholder(name, excluded_placeholders[p])
    /\ \/ HasIndicator(name)
       \/ Len(name) >= 2 /\ WordIsCapitalized(name[1])

\* the candidates of ai_parties that may be accepted
AcceptableCandidates ==
    {i \in 1..Len(ai_parties) :
        ai_parties[i].kind = "dict" /\ ai_parties[i].legal_name # <<>>
            /\ AcceptableName(ai_parties[i].legal_name)}

\* C12: convert_ai_parties accepts a candidate only if its legal name is longer
\* than the minimum length, holds no entry of the placeholder denylist as a
\* case-insensitive substring, and either holds a legal-entity indicator or is
\* a capitalized phrase of at least two words; with fewer than 2 accepted
\* candidates it raises, so it never returns a list of fewer than 2 parties.
C12_PartiesValidAndAtLeastTwo ==
    /\ party_pc = "returned" =>
          /\ parties # NotRun
          /\ Len(parties[1]) >= 2
          /\ \A k \in 1..Len(parties[1]) :
                LET p == parties[1][k]
                IN  /\ p.id \in AcceptableCandidates
                    /\ p.legalName = ai_parties[p.id].legal_name
    /\ party_pc = "raised" => parties = NotRun
    /\ (party_pc # "call" /\ Cardinality(AcceptableCandidates) < 2) => party_pc = "raised"

\* three candidates, one of them a placeholder: the two others are returned
C12_Witness ==
    /\ party_pc = "returned"
    /\ Len(ai_parties) = 3
    /\ Len(parties[1]) = 2
    /\ \E i \in 1..3 : ai_parties[i].legal_name = <<"Party", "A">>
    /\ \E k \in 1..2 : parties[1][k].legalName = <<"Jane", "Doe">>

-----------------------------------------------------------------------------
(* Properties of convert_ai_risks *)

\* the score is none of the claim's numeric scores: missing, the null
\* sentinel, a string, or zero
LacksNumericScore(sc) == sc.k \in {"missing", "sentinel", "text"} \/ sc = Score(0)

\* every emitted riskScore lies in [20, 95], and a whole score already there
\* is emitted unchanged
EmittedScoresInRange ==
    risk_pc = "returned" =>
        \A k \in 1..Len(risks[1]) :
            LET r  == risks[1][k]
                sc == ai_risks[r.id].risk_score
            IN  /\ r.riskScore \in 20..95
                /\ (sc.k = "num" /\ \E n \in 20..95 : sc.v = 10 * n) => 10 * r.riskScore = sc.v

TitledItems == {i \in 1..Len(ai_risks) : ai_risks[i].kind = "dict" /\ ai_risks[i].has_title}

-----------------------------------------------------------------------------
(* Properties of convert_ai_products *)

\* the quantity text of a candidate: quantity_text, or quantity when that is absent
QuantityTextOf(c) == IF c.quantity_text # NoQuantity THEN c.quantity_text ELSE c.quantity

\* the positive quantities the payload of a candidate gives: its
\* quantity_numeric when that is a number other than 0, otherwise the first
\* number of its quantity text; fractions are cut to whole numbers
PayloadQuantities(c) ==
    LET qn == c.quantity_numeric
        qt == QuantityTextOf(c)
        n  == IF qn.k = "num" /\ qn.v # 0 THEN {IntOf(qn.v)}
              ELSE IF qt.k \in {"text", "num"} THEN {IntOf(qt.v)}
              ELSE {}
    IN  {q \in n : q > 0}

\* C14: every product that convert_ai_products emits has a numeric quantity
\* > 0, equal to the payload's explicit quantity_numeric when that field is a
\* number and otherwise to the first number found in the quantity text; a
\* product whose payload gives no usable positive quantity is not emitted with
\* an invented quantity.
C14_QuantityFromPayload ==
    product_pc = "returned" =>
        \A k \in 1..Len(products[1]) :
            LET p == products[1][k]
            IN  /\ p.quantity > 0
                /\ p.quantity \in PayloadQuantities(ai_products[p.id])

-----------------------------------------------------------------------------
(* Properties of the quality gate *)

\* the quality gate has been passed or has rejected
GateDecided == gate_pc \notin {"idle", "call", "parsed", "scored"}

\* C16: the score of perform_quality_checks is an integer from 0 to 100; when it
\* is below 70 the call returns no data and raises; when it is 70 or more the
\* quality gate does not reject, the call goes on to the strict validation
C16_ScoreBoundedAndGateAt70 ==
    quality # NotRun =>
        LET score == quality[1].quality_score
        IN  /\ score \in 0..100
            /\ (GateDecided /\ score < 70) =>
                   /\ gate_pc \in {"raised", "exit"}
                   /\ raised # NotRun
                   /\ validation_errors = NotRun
                   /\ (written # NotRun => written[1].file = "contract_analysis_error.json")
            /\ (GateDecided /\ score >= 70) =>
                   gate_pc = "validate" \/ validation_errors # NotRun

\* a score of exactly 70 has passed the gate
C16_Witness ==
    /\ quality # NotRun
    /\ quality[1].quality_score = 70
    /\ gate_pc = "validate"

\* the values of a list
Range(s) == {s[i] : i \in 1..Len(s)}

\* C17: for a ContractData with exactly one party and a risk whose riskScore is
\* 150, perform_quality_checks lists the insufficient-parties issue and the
\* invalid-risk-score issue and returns a score below 70, and the quality gate
\* rejects the document
C17_OnePartyAndScore150Rejected ==
    (/\ quality # NotRun
     /\ Len(contract_data[1].parties) = 1
     /\ \E r \in Range(contract_data[1].risks) : r.riskScore = 150)
    => /\ "Insufficient parties identified (minimum 2 required)" \in Range(quality[1].quality_issues)
       /\ "Invalid risk score" \in Range(quality[1].quality_issues)
       /\ quality[1].quality_score < 70
       /\ GateDecided => (gate_pc \in {"raised", "exit"} /\ validation_errors = NotRun)

\* the texts an error message was given to show
Enumerated(e) == {a.v : a \in {x \in Range(e.args) : x.k = "text"}}

\* the checks that made the call raise: the quality issues when the quality gate
\* rejected, the critical errors when the strict validation rejected
ViolatedChecks ==
    IF validation_errors = NotRun
      THEN Range(quality[1].quality_issues)
      ELSE {e.what : e \in Range(critical_errors(validation_errors[1]))}

\* C18: when the quality gate or the strict validation rejects, the raised error
\* and the details of the error file enumerate every violated check
C18_RejectionEnumeratesViolations ==
    raised # NotRun =>
        /\ ViolatedChecks \subseteq Enumerated(raised[1])
        /\ written # NotRun => ViolatedChecks \subseteq Enumerated(written[1].content.details)

-----------------------------------------------------------------------------
(* Properties of extract_comprehensive_data *)

\* the categories of the payload that fail: fewer than 2 valid parties, no
\* dated timeline event, no risk or a risk without score, no key term, no
\* valid product
FailingCategories(payload) ==
    {c \in {"parties", "timeline", "risks", "key terms", "products"} :
        \/ c = "parties" /\ Len(SelectSeq(payload.parties,
                                LAMBDA p : p.kind = "dict" /\ IsValidName(p.legal_name))) < 2
        \/ c = "timeline" /\ ~\E e \in Range(payload.timeline_events) : e.kind = "dict" /\ IsDated(e.date)
        \/ c = "risks" /\ \/ ~\E r \in Range(payload.risk_factors) : IsRiskItem(r)
                          \/ \E r \in Range(payload.risk_factors) :
                                 IsRiskItem(r) /\ ~ScoreAccepted(r.risk_score)
        \/ c = "key terms" /\ ~\E t \in Range(payload.key_terms) : t.kind = "dict" /\ t.term # ""
        \/ c = "products" /\ ~\E p \in Range(payload.products_services) :
                                  p.kind = "dict" /\ IsValidProduct(p.name)}

\* the category an error message names
NamedCategory(e) ==
    CASE e = ParseFailure(PartiesError) -> "parties"
      [] e = ParseFailure(TimelineError) -> "timeline"
      [] e \in {ParseFailure(RiskScoreError), ParseFailure(RisksError)} -> "risks"
      [] e = ParseFailure(KeyTermsError) -> "key terms"
      [] e = ParseFailure(ProductsError) -> "products"
      [] OTHER -> "none"

\* the five categories of a returned ContractData met their minimum counts and
\* validity checks
CompleteContract(cd) ==
    /\ Len(cd.parties) >= 2
    /\ \A name \in Range(cd.parties) : IsValidName(name)
    /\ cd.timeline # <<>>
    /\ cd.risks # <<>>
    /\ \A r \in Range(cd.risks) : ~ScoreOutOfRange(r.riskScore)
    /\ cd.keyTerms # <<>>
    /\ cd.products # <<>>
    /\ \A p \in Range(cd.products) : IsValidProduct(p.name)

ExtractFinished == gate_pc \in {"returned", "raised", "done", "exit"}

\* C15: extract_comprehensive_data either returns a ContractData whose parties,
\* timeline, risks, keyTerms and products met their checks, or raises and
\* returns nothing; when a category of the payload fails, the error raised
\* names a failing category
C15_AllOrNothingNamingCategory ==
    (ai_payload # NotRun /\ ExtractFinished) =>
        /\ gate_pc \in {"returned", "done"} =>
               (raised = NotRun /\ CompleteContract(contract_data[1]))
        /\ gate_pc \in {"raised", "exit"} =>
               /\ raised # NotRun
               /\ written # NotRun => written[1].file = "contract_analysis_error.json"
        /\ FailingCategories(ai_payload[1]) # {} =>
               /\ raised # NotRun
               /\ NamedCategory(raised[1]) \in FailingCategories(ai_payload[1])

-----------------------------------------------------------------------------
(* Properties of extract_clause_risk_map_enhanced *)

\* the entries of the AI mapping of the input: those of clause_risk_mapping,
\* else those of the CLAUSE RISK MAPPING section
SuppliedMapping(input) ==
    LET from_json == IF input.json_block = "ok" THEN JsonMapping(input.clause_risk_mapping, 0)
                     ELSE <<>>
    IN  IF from_json # <<>> THEN from_json ELSE TextMapping(input.text_matches)

\* the entries the claimed order gives: the AI mapping, else one entry per
\* section heading of the text, else one entry per top risk
ClaimedMapping(input) ==
    IF SuppliedMapping(input) # <<>> THEN SuppliedMapping(input)
    ELSE IF input.headings # {} THEN SectionMapping(input.headings, 0, input.total_pages)
    ELSE IF input.json_block = "ok" THEN RiskMapping(input.risk_factors, 0, input.total_pages)
    ELSE <<>>

\* C19: clauseRiskMap is filled from the first non-empty source in the order AI
\* mapping, section headings of the text, top risks (page min(i+1, total_pages));
\* no risk-derived entry is produced when the text has a section heading
C19_MappingThenSectionsThenRisks ==
    map_pc \in {"enhance", "done"} =>
        /\ SubSeq(base_mapping, 1, Len(ClaimedMapping(map_input[1]))) = ClaimedMapping(map_input[1])
        /\ map_input[1].headings # {} =>
               \A e \in Range(base_mapping) : e.clause.prefix # "Risk Area"

\* C20: every entry of the clauseRiskMap has an integer page >= 1 and a position
\* whose top, left, width and height are percentages from 0 to 100
C20_PagesAndPositionsInRange ==
    map_pc = "done" =>
        \A e \in Range(base_mapping) :
            /\ e.page \in Int /\ e.page >= 1
            /\ e.position.top \in 0..100
            /\ e.position.left \in 0..100
            /\ e.position.width \in 0..100
            /\ e.position.height \in 0..100

-----------------------------------------------------------------------------
(* Properties of two calls of parse_ai_json_response *)

WithoutAnalysisDate(cd) == [f \in DOMAIN cd \ {"analysisDate"} |-> cd[f]]

\* C21: two calls of parse_ai_json_response on the same AI output, document
\* text and file, at two different times, return ContractData that are equal
\* in every field except metadata.analysisDate.
C21_EqualButAnalysisDate ==
    rerun_pc = "done" =>
        WithoutAnalysisDate(first_data[1]) = WithoutAnalysisDate(second_data[1])

\* the notice deadlines and the notice flags of the timeline do not read the clock
C21_NoticeIgnoresClock ==
    rerun_pc = "done" =>
        /\ Len(first_data[1].timeline) = Len(second_data[1].timeline)
        /\ \A i \in 1..Len(first_data[1].timeline) :
            /\ first_data[1].timeline[i].noticeDeadline = second_data[1].timeline[i].noticeDeadline
            /\ first_data[1].timeline[i].noticeRequired = second_data[1].timeline[i].noticeRequired
            /\ first_data[1].timeline[i].date = second_data[1].timeline[i].date

-----------------------------------------------------------------------------
(* Properties of the main block *)

\* the persisted artifacts of a run that succeeds, and of one that fails
ResultFiles == {OUTPUT_FILE, SUMMARY_FILE}
FailureFiles == {ERROR_FILE}

\* the run has processed its document and failed
DocumentFailed == main_pc = "exited" /\ exit_status = 1 /\ wrote # {}

-----------------------------------------------------------------------------
(* Properties of safe_gemini_generate *)

\* the strings safe_gemini_generate of new_main.py returns for a failed call
NewMainMarkers ==
    {"[AI ANALYSIS UNAVAILABLE - API key expired or invalid]", "[AI ANALYSIS ERROR]"}

\* C23: safe_gemini_generate issues the request at most once and never
\* raises; when the call fails or no model is configured it returns a marker
\* string; in the comprehensive pipeline a marker response ends in an error
\* raised by extract_comprehensive_data and never in returned contract data.
C23_MarkerEndsInError ==
    /\ ai_result # NotRun =>
        /\ ~ai_result[1].raised
        /\ ai_result[1].requests <= 1
        /\ (model = "None" \/ ai_result[1].outcome \in {"raises", "empty"}) =>
                /\ ai_result[1].value \in Markers
                /\ ai_response \in Markers
    /\ ai_response \in Markers => ai_pc # "returned" /\ parse_pc \notin {"clean", "load", "loaded"}
    /\ (ai_response \in Markers /\ parse_pc = "raised") => ai_pc \in {"parse", "raised"}
    /\ \A o \in AiOutcomes :
        /\ ~safe_gemini_generate(o).raised
        /\ AiRaises(o) => safe_gemini_generate(o).value \in NewMainMarkers

\* the configured model was asked once, the call failed and the marker ended in the ValueError
C23_Witness ==
    /\ model = "configured"
    /\ ai_result # NotRun
    /\ ai_result[1].outcome = "raises"
    /\ ai_result[1].requests = 1
    /\ ai_response = ERROR_MARKER
    /\ ai_pc = "raised"

-----------------------------------------------------------------------------
(* Properties of extract_numeric_value *)

\* the text without its currency signs
Bare(t) == SelectSeq(t, LAMBDA c : c \notin CurrencySigns)

HasDigit(t) == \E i \in 1..Len(t) : t[i] \in DigitChars

\* where the first number of t starts: the first run of digits and commas that holds a digit
FirstNumberStart(t) ==
    First({i \in 1..Len(t) :
            /\ t[i] \in NumberChars
            /\ i = 1 \/ t[i - 1] \notin NumberChars
            /\ HasDigit(SubSeq(t, i, RunEnd(t, i, NumberChars) - 1))})

NonLetters == NumberChars \cup CurrencySigns \cup {" ", "."}

\* the word that follows position j, after optional whitespace, in lower case
WordAfter(t, j) ==
    LET s == RunEnd(t, j, {" "})
        e == CHOOSE k \in s..(Len(t) + 1) :
                /\ \A i \in s..(k - 1) : t[i] \notin NonLetters
                /\ k = Len(t) + 1 \/ t[k] \in NonLetters
    IN  [i \in 1..(e - s) |-> LowerChar(t[s + i - 1])]

\* what the claim says extract_numeric_value returns
ClaimedValue(t) ==
    LET at  == FirstNumberStart(t)
        end == NumberEnd(t, at)
        suffix == WordAfter(t, end)
    IN  IF at = 0 THEN NoValue
        ELSE [value |-> FloatOf(SubSeq(t, at, end - 1))[1],
              multiplier |-> IF suffix \in MillionSuffixes THEN MILLION
                             ELSE IF suffix \in ThousandSuffixes THEN THOUSAND
                             ELSE 1]

\* C24: extract_numeric_value returns the value of the first number of the
\* text, commas removed, multiplied by 1,000,000 or by 1,000 exactly when a
\* magnitude suffix (million, mil, m; thousand, k) follows that number, and
\* multiplied at most once; a number without a suffix is returned unscaled
\* and a text without a number gives 0.
C24_FirstNumberScaledBySuffix ==
    numeric_pc = "returned" => numeric_value[1] = ClaimedValue(Bare(amount_text))

\* a text without a digit gives 0, and a value is multiplied at most once
C24_NoNumberGivesZero ==
    numeric_pc = "returned" =>
        /\ ~HasDigit(amount_text) => numeric_value[1] = NoValue
        /\ numeric_value[1].multiplier \in {1, THOUSAND, MILLION}

\* a number that stands first and alone, or before a suffix spelled out after a space, is read as claimed
C24_SpelledOutSuffix ==
    (numeric_pc = "returned"
        /\ \E number \in {"5", "1,000", "2.50"}, tail \in {"", " million", " thousand"} :
            Bare(amount_text) = Letters(number)
                \o (IF tail = "" THEN <<>> ELSE <<" ">> \o Letters(IF tail = " million" THEN "million" ELSE "thousand")))
        => numeric_value[1] = ClaimedValue(Bare(amount_text))

-----------------------------------------------------------------------------
(* Properties of the analytics *)

DistributionTotal(analytics) ==
    SumSeq([i \in 1..3 |-> analytics.riskDistribution[<<"high", "medium", "low">>[i]]])

FromRisks(data) ==
    /\ DistributionTotal(data.analytics) = Len(data.risks)
    /\ data.analytics.overallRiskScore =
            SumSeq([i \in 1..Len(data.risks) |-> data.risks[i].riskScore]) \div Len(data.risks)

\* C25: in every ContractData returned by extract_comprehensive_data the
\* counts of analytics.riskDistribution sum to len(risks) and
\* analytics.overallRiskScore is the floor of the mean of the riskScore
\* values, for every payload form the reconciler accepts and every risk
\* category.
C25_AnalyticsFromRisks ==
    analytics_pc = "returned" => FromRisks(analytics_data[1])

\* a fenced, complete payload without nulls whose risks are all high, medium or low
PlainPayload ==
    /\ AnalyticsLoads(analytics_input.response)
    /\ HasJsonMarker(analytics_input.response)
    /\ \A i \in 1..Len(analytics_input.risk_factors) :
        /\ analytics_input.risk_factors[i].titled
        /\ analytics_input.risk_factors[i].category \in RISK_CATEGORIES

\* for such a payload the analytics are those of the risks
C25_PlainPayloadFromRisks ==
    (analytics_pc = "returned" /\ PlainPayload) => FromRisks(analytics_data[1])

\* the average is always that of the risks the analytics converted, when they converted any
C25_DefaultsOrComputed ==
    analytics_pc \in {"parsed", "returned"} =>
        \/ analytics_data[1].analytics = DefaultAnalytics
        \/ analytics_data[1].analytics =
                AnalyticsOf(ConvertedRiskItems(analytics_input.risk_factors, FALSE))

C25_PlainReturned == analytics_pc = "returned" /\ PlainPayload

C25_DefaultsReturned ==
    /\ analytics_pc = "returned"
    /\ analytics_data[1].analytics = DefaultAnalytics
    /\ \A i \in 1..3 : analytics_input.risk_factors[i].titled
                        /\ analytics_input.risk_factors[i].category \in RISK_CATEGORIES

-----------------------------------------------------------------------------
(* Properties of the truncation repair *)

\* the brackets of s are balanced and each closer matches the most recent open opener
RECURSIVE NestedFrom(_, _, _)
NestedFrom(s, i, stack) ==
    IF i > Len(s) THEN stack = <<>>
    ELSE IF s[i] \in {"{", "["} THEN NestedFrom(s, i + 1, Append(stack, s[i]))
    ELSE IF s[i] \in {"}", "]"}
      THEN /\ stack # <<>>
           /\ stack[Len(stack)] = (IF s[i] = "}" THEN "{" ELSE "[")
           /\ NestedFrom(s, i + 1, SubSeq(stack, 1, Len(stack) - 1))
    ELSE NestedFrom(s, i + 1, stack)

ProperlyNested(s) == NestedFrom(s, 1, <<>>)

\* as many closers as openers of each kind
Balanced(s) == Count(s, "{") = Count(s, "}") /\ Count(s, "[") = Count(s, "]")

\* s is a well-formed document cut off after a complete value, and does not end in "}"
TruncatedAfterValue(s) ==
    /\ \E d \in Documents : IsJson(d) /\ \E k \in 1..(Len(d) - 1) : s = SubSeq(d, 1, k)
    /\ ~EndsWithBrace(s)
    /\ LET solid == SelectSeq(s, LAMBDA tok : ~IsSpace(tok))
           end   == JsonRun(solid, 1, [st |-> "value", stack |-> <<>>])
       IN  end.st = "after" /\ end.stack # <<>>

RepairRan ==
    /\ parse_pc \in {"load", "loaded", "raised"}
    /\ HasJsonMarker(ai_response)
    /\ TruncatedAfterValue(FencedText(ai_response))

\* C26: for a payload that is a well-formed document cut off after a
\* complete value and not ending in "}", the repair yields a text whose
\* brackets are balanced and properly nested: each appended closer matches
\* the most recent open opener, also when an unclosed object lies inside an
\* unclosed array, as in {"a": [{"b": 1.
C26_RepairClosesInLifoOrder ==
    RepairRan => ProperlyNested(json_text)

\* the repaired text has as many closers as openers of each kind
C26_RepairBalances ==
    RepairRan => Balanced(json_text)

\* when no open object lies inside an open array the repaired text is properly nested and loads
C26_FlatRepairLoads ==
    (RepairRan /\ parse_pc \in {"loaded", "raised"}
        /\ \E k \in 1..Len(ArrayDocument) : FencedText(ai_response) = SubSeq(ArrayDocument, 1, k))
        => ProperlyNested(json_text) /\ parse_pc = "loaded"

-----------------------------------------------------------------------------
(* Properties of the deductions of perform_quality_checks *)

\* what each check takes off quality_score, in the order of the checks (lines 419-531)
Deductions(cd) ==
    << Max(0, PARTY_POINTS - PartyScore(cd)),
       Max(0, PRODUCT_POINTS - ProductScore(cd)),
       Max(0, FINANCIAL_POINTS - FinancialScore(cd)),
       Max(0, TIMELINE_POINTS - TimelineScore(cd)),
       Max(0, RISK_POINTS - RiskScore(cd)),
       Max(0, ANALYTICS_POINTS - AnalyticsScore(cd)),
       Max(0, STRUCTURE_POINTS - StructureScore(cd)) >>

CheckWeights ==
    <<PARTY_POINTS, PRODUCT_POINTS, FINANCIAL_POINTS, TIMELINE_POINTS, RISK_POINTS,
      ANALYTICS_POINTS, STRUCTURE_POINTS>>

QualityScored == quality # NotRun /\ contract_data # NotRun

\* C28: each of the seven checks lowers the score by at most its own weight
\* (parties 20, products 15, financial 15, timeline 15, risks 15, analytics
\* 10, document structure 10), whatever the number of defects the check
\* finds, and the score is 100 less the sum of the seven deductions.
C28_DeductionWithinWeight ==
    QualityScored =>
        LET taken == Deductions(contract_data[1])
        IN  /\ \A c \in 1..7 : taken[c] <= CheckWeights[c]
            /\ quality[1].quality_score = BoundScore(100 - SumSeq(taken))

\* the score is 100 less the sum of the seven deductions, kept within 0..100
C28_TotalIsSum ==
    QualityScored =>
        quality[1].quality_score = BoundScore(100 - SumSeq(Deductions(contract_data[1])))

\* the checks that look at no list (financial, analytics, structure) stay within their weights
C28_FixedChecksWithinWeight ==
    QualityScored =>
        \A c \in {3, 6, 7} : Deductions(contract_data[1])[c] <= CheckWeights[c]

\* with at most two parties the party check stays within its weight
C28_FewPartiesWithinWeight ==
    (QualityScored /\ Len(contract_data[1].parties) <= 2) =>
        Deductions(contract_data[1])[1] <= PARTY_POINTS

-----------------------------------------------------------------------------
(* Properties of the party ids and the relationships of a ContractData *)

ContractBuilt == rel_pc = "built"

\* the ids of contractInfo.parties
PartyIds == {parties[1][k].id : k \in 1..Len(parties[1])}

\* C30: in every ContractData built by parse_ai_json_response the party ids
\* are pairwise distinct and the from and the to of every relationship are
\* ids of parties of contractInfo.parties, for every list of candidates,
\* also when some candidates are rejected by the name filter.
C30_RelationshipsNameParties ==
    ContractBuilt =>
        /\ \A j, k \in 1..Len(parties[1]) : parties[1][j].id = parties[1][k].id => j = k
        /\ \A r \in 1..Len(relationships[1]) :
              relationships[1][r].from \in PartyIds /\ relationships[1][r].to \in PartyIds

\* the party ids are pairwise distinct
C30_PartyIdsDistinct ==
    ContractBuilt =>
        \A j, k \in 1..Len(parties[1]) : parties[1][j].id = parties[1][k].id => j = k

\* when the first two candidates are accepted the relationship names two parties
C30_FirstTwoAccepted ==
    (ContractBuilt /\ {1, 2} \subseteq AcceptableCandidates) =>
        \A r \in 1..Len(relationships[1]) :
            relationships[1][r].from \in PartyIds /\ relationships[1][r].to \in PartyIds

\* a ContractData is built from a list whose first candidate is rejected
C30_RejectedFirstBuilt ==
    ContractBuilt /\ 1 \notin AcceptableCandidates

-----------------------------------------------------------------------------
(* Properties of highlight_clause_areas and create_highlighted_pdf *)

\* Method 1 of create_highlighted_pdf has run
ClausesDone ==
    hl_pc \in {"risks", "parties", "save"}
        \/ (hl_pc = "done" /\ hl_input[1].outcome # "open raises")

\* the annotations added for the n-th entry of the clause risk map
ClauseAnnots(n) == SelectSeq(annots, LAMBDA a : a.src = <<"clause", n>>)

\* a pattern of the clause lies on the page, or the page has text in the entry's area
ClauseOnPage(page, clause) ==
    \/ \E k \in 1..5 : SearchFor(page, ClausePatterns(clause.clause)[k]) # <<>>
    \/ page.area_chars > MIN_AREA_CHARS

\* C27: for every entry of the clause risk map written by the mapper with a
\* page p, 1 <= p <= number of pages, highlight_clause_areas searches page p
\* of the document (index p - 1) and places the entry's highlight there;
\* the entry is skipped only if p lies outside the document.
C27_HighlightOnMappedPage ==
    ClausesDone =>
        \A n \in 1..Len(hl_input[1].clauseRiskMap) :
            LET entry == hl_input[1].clauseRiskMap[n]
                p     == entry.page
            IN  (1 <= p /\ p <= Len(hl_input[1].pdf)) =>
                    /\ \A k \in 1..Len(ClauseAnnots(n)) : ClauseAnnots(n)[k].page = p - 1
                    /\ ClauseOnPage(hl_input[1].pdf[p], entry) => ClauseAnnots(n) # <<>>

\* every highlight of a mapped entry lies on the first page, whatever the entry's page
C27_AlwaysFirstPage ==
    \A k \in 1..Len(annots) : annots[k].src[1] = "clause" => annots[k].page = 0

\* an entry of page 1 is searched for and highlighted on the first page
C27_PageOneEntries ==
    ClausesDone =>
        \A n \in 1..Len(hl_input[1].clauseRiskMap) :
            LET entry == hl_input[1].clauseRiskMap[n]
            IN  entry.page = 1 =>
                    /\ \A k \in 1..Len(ClauseAnnots(n)) : ClauseAnnots(n)[k].page = 0
                    /\ ClauseOnPage(hl_input[1].pdf[1], entry) => ClauseAnnots(n) # <<>>

\* an entry of page 2 of a longer document has its highlight on the first page
C27_SecondPageEntryOnFirst ==
    /\ ClausesDone
    /\ Len(hl_input[1].pdf) >= 2
    /\ \E n \in 1..Len(hl_input[1].clauseRiskMap) :
          hl_input[1].clauseRiskMap[n].page = 2 /\ ClauseAnnots(n) # <<>>

\* the highlight definitions of create_highlighted_pdf: key phrases of the risks, then parties
HighlightDefinitions ==
    RiskHighlights(hl_input[1].risks) \o PartyHighlights(hl_input[1].parties)

TimesApplied(d) == Len(SelectSeq(applied, LAMBDA a : a = d))

HighlightsApplied ==
    hl_pc = "save" \/ (hl_pc = "done" /\ hl_result[1].success)

\* C29: create_highlighted_pdf applies each key-phrase highlight definition
\* of the risks exactly once and each highlight definition of a party name
\* longer than 5 characters exactly once, for every number of risks, of key
\* phrases per risk and of parties; the highlights_added returned is the
\* number of annotations added, and on an exception the function returns
\* success false with highlights_added 0.
C29_EachDefinitionOnce ==
    /\ HighlightsApplied =>
          \A d \in 1..Len(HighlightDefinitions) : TimesApplied(HighlightDefinitions[d]) = 1
    /\ hl_pc = "done" =>
          /\ hl_result # NotRun
          /\ hl_result[1].success => hl_result[1].highlights_added = Len(annots)
          /\ ~hl_result[1].success => hl_result[1].highlights_added = 0

\* the count returned is the number of annotations added, or 0 with success false
C29_CountOfAnnotations ==
    hl_pc = "done" =>
        /\ hl_result # NotRun
        /\ hl_result[1].success => hl_result[1].highlights_added = Len(annots)
        /\ ~hl_result[1].success =>
              /\ hl_result[1].highlights_added = 0
              /\ \/ hl_input[1].outcome # "ok"
                 \/ \E i \in 1..Len(hl_input[1].risks) : hl_input[1].risks[i].title = None

\* with as many key phrases as risks each definition is applied once
C29_OnceWhenCountsAgree ==
    (HighlightsApplied /\ Len(RiskHighlights(hl_input[1].risks)) = Len(hl_input[1].risks)) =>
        \A d \in 1..Len(HighlightDefinitions) : TimesApplied(HighlightDefinitions[d]) = 1

\* every definition is applied at most twice, and a key phrase at least once
C29_OnceOrTwice ==
    HighlightsApplied =>
        \A d \in 1..Len(HighlightDefinitions) :
            LET times == TimesApplied(HighlightDefinitions[d])
            IN  times <= 2 /\ (HighlightDefinitions[d].src[1] = "risk" => times >= 1)

\* a key phrase is applied twice
C29_PhraseAppliedTwice ==
    HighlightsApplied /\ \E d \in 1..Len(HighlightDefinitions) :
        HighlightDefinitions[d].src[1] = "risk" /\ TimesApplied(HighlightDefinitions[d]) = 2

\* a party name longer than 5 characters is never applied
C29_PartyNeverApplied ==
    HighlightsApplied /\ \E d \in 1..Len(HighlightDefinitions) :
        HighlightDefinitions[d].src[1] = "party" /\ TimesApplied(HighlightDefinitions[d]) = 0

-----------------------------------------------------------------------------
(* Properties of sliding_window_chunks *)

ValidConfig == max_chars > overlap /\ overlap >= 0

\* position p lies in the range of a returned chunk
InChunk(p) == \E i \in 1..Len(chunks) : chunks[i][1] <= p /\ p < chunks[i][2]

\* position p lies in an examined window
InWindow(p) == \E i \in 1..Len(windows) : windows[i][1] <= p /\ p < windows[i][2]

\* C1: sliding_window_chunks terminates for every text and every
\* (max_chars, overlap), the misconfigured max_chars <= overlap included:
\* every run leaves the while loop (a run that leaves the model's bounds
\* counts as having left it, so only a run that goes round the loop for ever
\* within the bounds violates this).
C1_Terminates == <>(pc \in {"done", "cut"})

\* C2 as stated: with max_chars > overlap >= 0 the ranges of the returned
\* chunks of new_main.py cover every position of [0, len(text)) and consecutive
\* chunks share exactly the declared overlap.
C2_ChunksCoverAll ==
    (pc = "done" /\ impl = "new_main" /\ ValidConfig) =>
        /\ \A p \in 0..(Len(text) - 1) : InChunk(p)
        /\ \A i \in 1..(Len(chunks) - 1) : chunks[i + 1][1] = chunks[i][2] - overlap

\* C2 amended: with max_chars > overlap >= 0 the run of new_main.py stays
\* within len(text) windows (it terminates); the windows examined cover every
\* position of [0, len(text)) with consecutive windows sharing exactly overlap
\* positions; the returned chunks are exactly the windows that hold a
\* non-whitespace atom, in the same order, so every non-whitespace position is
\* in a returned chunk and only whitespace is left uncovered.
C2_WindowsCoverAll ==
    (impl = "new_main" /\ ValidConfig) =>
        /\ pc # "cut"
        /\ Len(windows) <= Len(text)
        /\ \A i \in 1..(Len(windows) - 1) : windows[i + 1][1] = windows[i][2] - overlap
        /\ \A i \in 1..Len(chunks) :
              /\ \E j \in 1..Len(windows) : windows[j] = chunks[i]
              /\ StripNonEmpty(PySlice(text, chunks[i][1], chunks[i][2]))
        /\ \A j \in 1..Len(windows) :
              StripNonEmpty(PySlice(text, windows[j][1], windows[j][2])) =>
                  \E i \in 1..Len(chunks) : chunks[i] = windows[j]
        /\ pc = "done" =>
              /\ \A p \in 0..(Len(text) - 1) : InWindow(p)
              /\ \A p \in 0..(Len(text) - 1) : ~IsSpace(text[p + 1]) => InChunk(p)

\* a finished run with overlapping chunks and a dropped whitespace-only window
C2_Witness ==
    /\ pc = "done" /\ impl = "new_main" /\ ValidConfig /\ overlap >= 1
    /\ Len(chunks) >= 2
    /\ Len(chunks) < Len(windows)

\* C3: in new_main.py with max_chars > overlap >= 0 the k-th window examined
\* (k from 0) starts at k * (max_chars - overlap) and ends at
\* min(start + max_chars, len(text)); only the last window examined ends at
\* len(text), and a finished run on a non-empty text has examined it; the
\* chunks are returned in document order.
C3_WindowArithmetic ==
    (impl = "new_main" /\ ValidConfig) =>
        /\ \A k \in 1..Len(windows) :
              /\ windows[k][1] = (k - 1) * (max_chars - overlap)
              /\ windows[k][2] = Min(windows[k][1] + max_chars, Len(text))
        /\ \A k \in 1..(Len(windows) - 1) : windows[k][2] < Len(text)
        /\ (pc = "done" /\ Len(text) > 0) =>
              /\ Len(windows) >= 1
              /\ windows[Len(windows)][2] = Len(text)
        /\ \A i \in 1..(Len(chunks) - 1) :
              /\ chunks[i][1] < chunks[i + 1][1]
              /\ chunks[i][2] < chunks[i + 1][2]

\* a finished run of at least three windows with a real overlap
C3_Witness ==
    /\ pc = "done" /\ impl = "new_main" /\ ValidConfig /\ overlap >= 1
    /\ Len(windows) >= 3
    /\ Len(chunks) >= 2

=============================================================================
